---- MODULE Spec2Model ----
(***************************************************************************)
(* A model of the lox-tw tree-walking interpreter: the parser              *)
(* (src/src/parser.rs), the resolver (src/src/resolver.rs),                *)
(* the environment chain (src/src/environment.rs),                         *)
(* the callables (lox_function.rs, lox_class.rs, lox_instance.rs,          *)
(* lox_callable.rs) and the interpreter (src/src/interpreter.rs).          *)
(*                                                                         *)
(* The interpreter's recursive visit_* methods are modelled as a machine   *)
(* with an explicit stack `kont` of the Rust activations that are waiting  *)
(* for a sub-evaluation, and a control register `ctl` holding either the   *)
(* node about to be visited or the Result that the last activation         *)
(* returned (Ok(()), Ok(value), or Err(RuntimeError | Return)).            *)
(***************************************************************************)
EXTENDS Integers, Sequences, FiniteSets, TLC

VARIABLES
    pc,           \* "read" | "parse" | "parse_error" | "start" | "interpret" |
                  \* "static_error" | "panic" | "returned" | "done" | "exit" |
                  \* "assign" | "assigned" | "unique_id"
    lox,          \* LoxInternal and what drives it: [mode, had_error,
                  \* had_runtime_error, lines, exit]
    prog,         \* which program was given to the pipeline
    tokens,       \* Parser.tokens, <<>> for a program given as statements
    current,      \* Parser.current, counted from 1
    parse_errors, \* what the parser's error handler received
    parser_panicked, \* Parser::previous was called with current = 0
    counter_usize, \* unique_id::COUNTER_USIZE
    statements,   \* the parsed statement list (Vec<Stmt>)
    locals,       \* Interpreter.locals : expr id -> distance
    errors,       \* messages the resolver's error handler received
    frames,       \* the Environment heap: Seq of [enclosing, values]
    environment,  \* Interpreter.environment (index into frames)
    classes,      \* the LoxClass heap: Seq of [name, superclass, methods, id]
    instances,    \* the LoxInstance heap: Seq of [class, fields]
    counter_u128, \* unique_id::COUNTER_U128
    kont,         \* stack of waiting activations, innermost first
    ctl,          \* control register
    output,       \* InterpreterOutput::ByteVec, one entry per printed line
    runtime_errors, \* RuntimeErrors handed to interpret()'s error_handler
    threads       \* the threads that call unique_id: [mutex, at, returned]

vars == <<pc, lox, prog, tokens, current, parse_errors, parser_panicked, counter_usize, statements,
          locals, errors, frames, environment, classes, instances, counter_u128,
          kont, ctl, output, runtime_errors, threads>>

-----------------------------------------------------------------------------
(* Object (src/src/object.rs) *)

ONil == [k |-> "Nil"]
OBoolean(b) == [k |-> "Boolean", b |-> b]
ONumber(n) == [k |-> "Number", n |-> n]
OString(s) == [k |-> "String", s |-> s]
OClass(c) == [k |-> "Class", class |-> c]
OInstance(i) == [k |-> "Instance", instance |-> i]
OCallable(c) == [k |-> "Callable", callable |-> c]

(* LoxCallable (src/src/lox_callable.rs) *)
CallableClass(c) == [kind |-> "Class", class |-> c]
CallableClock(id) == [kind |-> "Clock", id |-> id]

(* LoxFunction::new; the id is drawn from unique_u128 by the caller *)
LoxFunction_new(declaration, closure, is_initializer, id) ==
    [kind |-> "Function", is_initializer |-> is_initializer,
     closure |-> closure, declaration |-> declaration, id |-> id]

-----------------------------------------------------------------------------
(* AST (src/src/stmt.rs, src/src/expr.rs as used by resolver.rs and        *)
(* interpreter.rs).  Name and operator tokens are reduced to   *)
(* their lexemes; the token of a call is kept whole.                       *)

None == [t |-> "None"]

ExprAssign(name, value, id) == [t |-> "Assign", name |-> name, value |-> value, id |-> id]
ExprBinary(left, operator, right) ==
    [t |-> "Binary", left |-> left, operator |-> operator, right |-> right]
(* Token (src/src/token.rs).  A token without literal carries nil. *)
Token(type, lexeme, literal, line) ==
    [type |-> type, lexeme |-> lexeme, literal |-> literal, line |-> line]

(* expr::Call::make; paren is the token kept for error reports *)
Call_make(callee, paren, arguments) ==
    [t |-> "Call", callee |-> callee, paren |-> paren, arguments |-> arguments]

(* a call whose closing parenthesis stands on line 1 *)
ExprCall(callee, arguments) ==
    Call_make(callee, Token("RightParen", ")", ONil, 1), arguments)

ExprGrouping(expression) == [t |-> "Grouping", expression |-> expression]
ExprUnary(operator, right) == [t |-> "Unary", operator |-> operator, right |-> right]
ExprGet(object, name) == [t |-> "Get", object |-> object, name |-> name]
ExprLiteral(value) == [t |-> "Literal", value |-> value]
ExprLogical(left, operator, right) ==
    [t |-> "Logical", left |-> left, operator |-> operator, right |-> right]
ExprSet(object, name, value) ==
    [t |-> "Set", object |-> object, name |-> name, value |-> value]
ExprSuper(method, id) == [t |-> "Super", keyword |-> "super", method |-> method, id |-> id]
ExprThis(id) == [t |-> "This", keyword |-> "this", id |-> id]
ExprVariable(name, id) == [t |-> "Variable", name |-> name, id |-> id]

StmtBlock(stmts) == [t |-> "Block", statements |-> stmts]
StmtClass(name, superclass, methods) ==
    [t |-> "Class", name |-> name, superclass |-> superclass, methods |-> methods]
StmtExpression(expression) == [t |-> "Expression", expression |-> expression]
StmtFunction(name, params, body) ==
    [t |-> "Function", name |-> name, params |-> params, body |-> body]
StmtIf(condition, then_branch, else_branch) ==
    [t |-> "If", condition |-> condition, then_branch |-> then_branch,
     else_branch |-> else_branch]
StmtPrint(expression) == [t |-> "Print", expression |-> expression]
StmtReturn(value) == [t |-> "Return", value |-> value]
StmtVar(name, initializer) == [t |-> "Var", name |-> name, initializer |-> initializer]
StmtWhile(condition, body) == [t |-> "While", condition |-> condition, body |-> body]

-----------------------------------------------------------------------------
(* Parser (src/src/parser.rs).  The parser reads the token list `tokens`;  *)
(* its own state is threaded through the operators as the record           *)
(* P = [current, errors, counter, panicked]: the index of the next token   *)
(* (counted from 1), what the error handler has received, unique_id's      *)
(* COUNTER_USIZE, from which the Variable, Assign, This and Super nodes    *)
(* draw their ids, and whether previous() has indexed before the first     *)
(* token.  A Result is [ok, v, P]; Err is always a ParseError.             *)

POk(v, P) == [ok |-> TRUE, v |-> v, P |-> P]
PErr(P) == [ok |-> FALSE, v |-> None, P |-> P]

Parser_peek(P) == tokens[P.current]

Parser_previous(P) == tokens[P.current - 1]

Parser_is_at_end(P) == Parser_peek(P).type = "Eof"

Parser_check(P, type) == ~Parser_is_at_end(P) /\ Parser_peek(P).type = type

(* advance returns previous(), whose index current - 1 underflows when the *)
(* cursor is still on the first token                                      *)
Parser_advance(P) ==
    LET P1 == IF ~Parser_is_at_end(P) THEN [P EXCEPT !.current = @ + 1] ELSE P
    IN IF P1.current = 1 THEN [P1 EXCEPT !.panicked = TRUE] ELSE P1

(* match_: whether one of the types matched, and the parser after it *)
Parser_match(P, types) ==
    IF \E type \in types : Parser_check(P, type)
    THEN [hit |-> TRUE, P |-> Parser_advance(P)]
    ELSE [hit |-> FALSE, P |-> P]

(* Parser::error: the handler receives the token and the message *)
Parser_error(P, token, message) ==
    [P EXCEPT !.errors = Append(@, [token |-> token, message |-> message])]

Parser_consume(P, type, message) ==
    IF Parser_check(P, type)
    THEN POk(Parser_peek(P), Parser_advance(P))
    ELSE PErr(Parser_error(P, Parser_peek(P), message))

(* unique_usize: fetch_add yields the value before the increment *)
unique_usize(P) == [id |-> P.counter, P |-> [P EXCEPT !.counter = @ + 1]]

Keywords == {"Class", "Fun", "Var", "For", "If", "While", "Print", "Return"}

(* the while loop of synchronize *)
RECURSIVE synchronize_loop(_)
synchronize_loop(P) ==
    IF Parser_is_at_end(P) THEN P
    ELSE IF Parser_previous(P).type = "Semicolon" THEN P
    ELSE IF Parser_peek(P).type \in Keywords THEN P
    ELSE synchronize_loop(Parser_advance(P))

(* synchronize without its first advance: the token the error was         *)
(* reported at is not skipped; RecoveryResumesAfterErrorToken must reject  *)
(* it                                                                      *)
Parser_synchronize_no_advance(P) == synchronize_loop(P)

Parser_synchronize(P) == synchronize_loop(Parser_advance(P))

RECURSIVE Parser_rule(_, _, _)

Parser_expression(P) == Parser_rule("Parser_assignment", P, None)

(* the loop of class_declaration over the methods *)
class_declaration_methods(P, methods) ==
    IF Parser_check(P, "RightBrace") \/ Parser_is_at_end(P) THEN POk(methods, P)
    ELSE LET f == Parser_rule("Parser_function", P, "method")
         IN IF ~f.ok THEN f
            ELSE Parser_rule("class_declaration_methods", f.P, Append(methods, f.v))

(* the superclass clause of class_declaration: None without `<` *)
class_superclass(P) ==
    LET sup == Parser_consume(Parser_advance(P), "Identifier", "Expect superclass name.")
        u == unique_usize(sup.P)
    IN IF ~Parser_check(P, "Less") THEN POk(None, P)
       ELSE IF ~sup.ok THEN sup
       ELSE POk(ExprVariable(sup.v.lexeme, u.id), u.P)

Parser_class_declaration(P) ==
    LET name == Parser_consume(P, "Identifier", "Expect class name.")
        superclass == class_superclass(name.P)
        brace == Parser_consume(superclass.P, "LeftBrace",
                                "Expect '{' before class body.")
        methods == Parser_rule("class_declaration_methods", brace.P, <<>>)
        close == Parser_consume(methods.P, "RightBrace", "Expect '}' after class body.")
    IN CASE ~name.ok -> name
         [] ~superclass.ok -> superclass
         [] ~brace.ok -> brace
         [] ~methods.ok -> methods
         [] ~close.ok -> close
         [] OTHER -> POk(StmtClass(name.v.lexeme, superclass.v, methods.v), close.P)

(* the initializer clause of for_statement *)
for_initializer(P) ==
    IF Parser_check(P, "Semicolon") THEN POk(None, Parser_advance(P))
    ELSE IF Parser_check(P, "Var")
    THEN Parser_rule("Parser_var_declaration", Parser_advance(P), None)
    ELSE Parser_rule("Parser_expression_statement", P, None)

(* the condition and the increment clause: None when `closing` follows *)
for_clause(P, closing) ==
    IF Parser_check(P, closing) THEN POk(None, P)
    ELSE Parser_rule("Parser_expression", P, None)

(* for_desugar with the increment put before the body; ForIsWhile must     *)
(* reject it                                                               *)
for_desugar_increment_first(initializer, condition, increment, body) ==
    LET body1 == IF increment.t # "None"
                 THEN StmtBlock(<<StmtExpression(increment), body>>)
                 ELSE body
        body2 == StmtWhile(IF condition.t = "None"
                           THEN ExprLiteral(OBoolean(TRUE))
                           ELSE condition,
                           body1)
    IN IF initializer.t # "None" THEN StmtBlock(<<initializer, body2>>) ELSE body2

(* the while loop a for statement is turned into *)
for_desugar(initializer, condition, increment, body) ==
    LET body1 == IF increment.t # "None"
                 THEN StmtBlock(<<body, StmtExpression(increment)>>)
                 ELSE body
        body2 == StmtWhile(IF condition.t = "None"
                           THEN ExprLiteral(OBoolean(TRUE))
                           ELSE condition,
                           body1)
    IN IF initializer.t # "None" THEN StmtBlock(<<initializer, body2>>) ELSE body2

Parser_for_statement(P) ==
    LET open == Parser_consume(P, "LeftParen", "Expect '(' after 'for'.")
        initializer == for_initializer(open.P)
        condition == for_clause(initializer.P, "Semicolon")
        semi == Parser_consume(condition.P, "Semicolon",
                               "Expect ';' after loop condition.")
        increment == for_clause(semi.P, "RightParen")
        close == Parser_consume(increment.P, "RightParen",
                                "Expect ')' after for clauses.")
        body == Parser_rule("Parser_statement", close.P, None)
    IN CASE ~open.ok -> open
         [] ~initializer.ok -> initializer
         [] ~condition.ok -> condition
         [] ~semi.ok -> semi
         [] ~increment.ok -> increment
         [] ~close.ok -> close
         [] ~body.ok -> body
         [] OTHER -> POk(for_desugar(initializer.v, condition.v, increment.v, body.v),
                         body.P)

Parser_if_statement(P) ==
    LET open == Parser_consume(P, "LeftParen", "Expect '(' after 'if'.")
    IN IF ~open.ok THEN open
       ELSE
    LET condition == Parser_rule("Parser_expression", open.P, None)
    IN IF ~condition.ok THEN condition
       ELSE
    LET close == Parser_consume(condition.P, "RightParen",
                                "Expect ')' after if condition.")
    IN IF ~close.ok THEN close
       ELSE
    LET then_branch == Parser_rule("Parser_statement", close.P, None)
    IN IF ~then_branch.ok THEN then_branch
       ELSE
    LET else == Parser_match(then_branch.P, {"Else"})
        else_branch == IF else.hit THEN Parser_rule("Parser_statement", else.P, None)
                       ELSE POk(None, else.P)
    IN IF ~else_branch.ok THEN else_branch
       ELSE POk(StmtIf(condition.v, then_branch.v, else_branch.v), else_branch.P)

Parser_print_statement(P) ==
    LET value == Parser_rule("Parser_expression", P, None)
    IN IF ~value.ok THEN value
       ELSE
    LET semi == Parser_consume(value.P, "Semicolon", "Expect ';' after value.")
    IN IF ~semi.ok THEN semi
       ELSE POk(StmtPrint(value.v), semi.P)

Parser_return_statement(P) ==
    LET value == IF Parser_check(P, "Semicolon") THEN POk(None, P)
                 ELSE Parser_rule("Parser_expression", P, None)
    IN IF ~value.ok THEN value
       ELSE
    LET semi == Parser_consume(value.P, "Semicolon", "Expect ';' after return value.")
    IN IF ~semi.ok THEN semi
       ELSE POk(StmtReturn(value.v), semi.P)

Parser_var_declaration(P) ==
    LET name == Parser_consume(P, "Identifier", "Expect variable name.")
    IN IF ~name.ok THEN name
       ELSE
    LET equal == Parser_match(name.P, {"Equal"})
        initializer == IF equal.hit THEN Parser_rule("Parser_expression", equal.P, None)
                       ELSE POk(None, equal.P)
    IN IF ~initializer.ok THEN initializer
       ELSE
    LET semi == Parser_consume(initializer.P, "Semicolon",
                               "Expect ';' after variable declaration.")
    IN IF ~semi.ok THEN semi
       ELSE POk(StmtVar(name.v.lexeme, initializer.v), semi.P)

Parser_while_statement(P) ==
    LET open == Parser_consume(P, "LeftParen", "Expect '(' after 'while'.")
    IN IF ~open.ok THEN open
       ELSE
    LET condition == Parser_rule("Parser_expression", open.P, None)
    IN IF ~condition.ok THEN condition
       ELSE
    LET close == Parser_consume(condition.P, "RightParen",
                                "Expect ')' after condition.")
    IN IF ~close.ok THEN close
       ELSE
    LET body == Parser_rule("Parser_statement", close.P, None)
    IN IF ~body.ok THEN body
       ELSE POk(StmtWhile(condition.v, body.v), body.P)

Parser_expression_statement(P) ==
    LET expr == Parser_rule("Parser_expression", P, None)
    IN IF ~expr.ok THEN expr
       ELSE
    LET semi == Parser_consume(expr.P, "Semicolon", "Expect ';' after expression.")
    IN IF ~semi.ok THEN semi
       ELSE POk(StmtExpression(expr.v), semi.P)

Parser_statement(P) ==
    CASE Parser_check(P, "For") -> Parser_rule("Parser_for_statement", Parser_advance(P), None)
      [] Parser_check(P, "If") -> Parser_rule("Parser_if_statement", Parser_advance(P), None)
      [] Parser_check(P, "Print") -> Parser_rule("Parser_print_statement", Parser_advance(P), None)
      [] Parser_check(P, "Return") -> Parser_rule("Parser_return_statement", Parser_advance(P), None)
      [] Parser_check(P, "While") -> Parser_rule("Parser_while_statement", Parser_advance(P), None)
      [] Parser_check(P, "LeftBrace") ->
            LET b == Parser_rule("Parser_block", Parser_advance(P), None)
            IN IF ~b.ok THEN b ELSE POk(StmtBlock(b.v), b.P)
      [] OTHER -> Parser_rule("Parser_expression_statement", P, None)

(* the loop of Parser::function over the parameters *)
function_parameters(P, parameters) ==
    LET P1 == IF Len(parameters) >= 255
              THEN Parser_error(P, Parser_peek(P), "Can't have more than 255 parameters.")
              ELSE P
        name == Parser_consume(P1, "Identifier", "Expect parameter name.")
        comma == Parser_match(name.P, {"Comma"})
    IN IF ~name.ok THEN name
       ELSE IF comma.hit
       THEN Parser_rule("function_parameters", comma.P, Append(parameters, name.v.lexeme))
       ELSE POk(Append(parameters, name.v.lexeme), comma.P)

Parser_function(P, kind) ==
    LET name == Parser_consume(P, "Identifier", "Expect " \o kind \o " name.")
    IN IF ~name.ok THEN name
       ELSE
    LET open == Parser_consume(name.P, "LeftParen",
                               "Expect '(' after " \o kind \o " name.")
    IN IF ~open.ok THEN open
       ELSE
    LET parameters == IF ~Parser_check(open.P, "RightParen")
                      THEN Parser_rule("function_parameters", open.P, <<>>)
                      ELSE POk(<<>>, open.P)
    IN IF ~parameters.ok THEN parameters
       ELSE
    LET close == Parser_consume(parameters.P, "RightParen",
                                "Expect ')' after parameters.")
    IN IF ~close.ok THEN close
       ELSE
    LET brace == Parser_consume(close.P, "LeftBrace",
                                "Expect '{' before " \o kind \o " body.")
    IN IF ~brace.ok THEN brace
       ELSE
    LET body == Parser_rule("Parser_block", brace.P, None)
    IN IF ~body.ok THEN body
       ELSE POk(StmtFunction(name.v.lexeme, parameters.v, body.v), body.P)

(* the loop of Parser::block: a declaration that was discarded adds        *)
(* nothing                                                                 *)
block_statements(P, stmts) ==
    IF Parser_check(P, "RightBrace") \/ Parser_is_at_end(P) THEN POk(stmts, P)
    ELSE LET d == Parser_rule("Parser_declaration", P, None)
         IN Parser_rule("block_statements", d.P, IF d.ok THEN Append(stmts, d.v) ELSE stmts)

Parser_block(P) ==
    LET stmts == Parser_rule("block_statements", P, <<>>)
        close == Parser_consume(stmts.P, "RightBrace", "Expect '}' after block.")
    IN IF ~close.ok THEN close ELSE POk(stmts.v, close.P)

(* Parser::declaration: ok = FALSE stands for None, the declaration was    *)
(* discarded and the parser has synchronized                               *)
(* the stmt_result of Parser::declaration *)
declaration_stmt_result(P) ==
    CASE Parser_check(P, "Var") -> Parser_rule("Parser_var_declaration", Parser_advance(P), None)
      [] Parser_check(P, "Class") -> Parser_rule("Parser_class_declaration", Parser_advance(P), None)
      [] Parser_check(P, "Fun") -> Parser_rule("Parser_function", Parser_advance(P), "function")
      [] OTHER -> Parser_rule("Parser_statement", P, None)

(* declaration that does not call synchronize after a ParseError;          *)
(* ParseTerminates must reject it                                          *)
declaration_match_no_synchronize(stmt_result) ==
    IF stmt_result.ok THEN stmt_result ELSE PErr(stmt_result.P)

(* declaration with its result handed in *)
declaration_match(stmt_result) ==
    IF stmt_result.ok THEN stmt_result
    ELSE PErr(Parser_synchronize(stmt_result.P))

Parser_declaration(P) == declaration_match(declaration_stmt_result(P))

Parser_assignment(P) ==
    LET expr == Parser_rule("Parser_or", P, None)
    IN IF ~expr.ok THEN expr
       ELSE
    LET equal == Parser_match(expr.P, {"Equal"})
        equals == Parser_previous(equal.P)
        value == Parser_rule("Parser_assignment", equal.P, None)
        u == unique_usize(value.P)
    IN IF ~equal.hit THEN expr
       ELSE IF ~value.ok THEN value
       ELSE IF expr.v.t = "Variable"
       THEN POk(ExprAssign(expr.v.name, value.v, u.id), u.P)
       ELSE IF expr.v.t = "Get"
       THEN POk(ExprSet(expr.v.object, expr.v.name, value.v), value.P)
       ELSE POk(expr.v, Parser_error(value.P, equals, "Invalid assignment target."))

or_loop(P, expr) ==
    LET m == Parser_match(P, {"Or"})
        operator == Parser_previous(m.P)
        right == Parser_rule("Parser_and", m.P, None)
    IN IF ~m.hit THEN POk(expr, P)
       ELSE IF ~right.ok THEN right
       ELSE Parser_rule("or_loop", right.P, ExprLogical(expr, operator.lexeme, right.v))

Parser_or(P) ==
    LET expr == Parser_rule("Parser_and", P, None)
    IN IF ~expr.ok THEN expr ELSE Parser_rule("or_loop", expr.P, expr.v)

and_loop(P, expr) ==
    LET m == Parser_match(P, {"And"})
        operator == Parser_previous(m.P)
        right == Parser_rule("Parser_equality", m.P, None)
    IN IF ~m.hit THEN POk(expr, P)
       ELSE IF ~right.ok THEN right
       ELSE Parser_rule("and_loop", right.P, ExprLogical(expr, operator.lexeme, right.v))

Parser_and(P) ==
    LET expr == Parser_rule("Parser_equality", P, None)
    IN IF ~expr.ok THEN expr ELSE Parser_rule("and_loop", expr.P, expr.v)

equality_loop(P, expr) ==
    LET m == Parser_match(P, {"BangEqual", "EqualEqual"})
        operator == Parser_previous(m.P)
        right == Parser_rule("Parser_comparison", m.P, None)
    IN IF ~m.hit THEN POk(expr, P)
       ELSE IF ~right.ok THEN right
       ELSE Parser_rule("equality_loop", right.P, ExprBinary(expr, operator.lexeme, right.v))

Parser_equality(P) ==
    LET expr == Parser_rule("Parser_comparison", P, None)
    IN IF ~expr.ok THEN expr ELSE Parser_rule("equality_loop", expr.P, expr.v)

comparison_loop(P, expr) ==
    LET m == Parser_match(P, {"Greater", "GreaterEqual", "Less", "LessEqual"})
        operator == Parser_previous(m.P)
        right == Parser_rule("Parser_term", m.P, None)
    IN IF ~m.hit THEN POk(expr, P)
       ELSE IF ~right.ok THEN right
       ELSE Parser_rule("comparison_loop", right.P, ExprBinary(expr, operator.lexeme, right.v))

Parser_comparison(P) ==
    LET expr == Parser_rule("Parser_term", P, None)
    IN IF ~expr.ok THEN expr ELSE Parser_rule("comparison_loop", expr.P, expr.v)

term_loop(P, expr) ==
    LET m == Parser_match(P, {"Minus", "Plus"})
        operator == Parser_previous(m.P)
        right == Parser_rule("Parser_factor", m.P, None)
    IN IF ~m.hit THEN POk(expr, P)
       ELSE IF ~right.ok THEN right
       ELSE Parser_rule("term_loop", right.P, ExprBinary(expr, operator.lexeme, right.v))

Parser_term(P) ==
    LET expr == Parser_rule("Parser_factor", P, None)
    IN IF ~expr.ok THEN expr ELSE Parser_rule("term_loop", expr.P, expr.v)

factor_loop(P, expr) ==
    LET m == Parser_match(P, {"Slash", "Star"})
        operator == Parser_previous(m.P)
        right == Parser_rule("Parser_unary", m.P, None)
    IN IF ~m.hit THEN POk(expr, P)
       ELSE IF ~right.ok THEN right
       ELSE Parser_rule("factor_loop", right.P, ExprBinary(expr, operator.lexeme, right.v))

Parser_factor(P) ==
    LET expr == Parser_rule("Parser_unary", P, None)
    IN IF ~expr.ok THEN expr ELSE Parser_rule("factor_loop", expr.P, expr.v)

Parser_unary(P) ==
    LET m == Parser_match(P, {"Bang", "Minus"})
        operator == Parser_previous(m.P)
        right == Parser_rule("Parser_unary", m.P, None)
    IN IF ~m.hit THEN Parser_rule("Parser_call", P, None)
       ELSE IF ~right.ok THEN right
       ELSE POk(ExprUnary(operator.lexeme, right.v), right.P)

(* the loop of finish_call over the arguments *)
finish_call_arguments(P, arguments) ==
    LET P1 == IF Len(arguments) >= 255
              THEN Parser_error(P, Parser_peek(P), "Can't have more than 255 arguments.")
              ELSE P
        argument == Parser_rule("Parser_expression", P1, None)
        comma == Parser_match(argument.P, {"Comma"})
    IN IF ~argument.ok THEN argument
       ELSE IF comma.hit
       THEN Parser_rule("finish_call_arguments", comma.P, Append(arguments, argument.v))
       ELSE POk(Append(arguments, argument.v), comma.P)

(* finish_call keeping the `(` it was entered after instead of the `)`;    *)
(* CallErrorOnClosingParen must reject it                                  *)
Parser_finish_call_opening(P, callee) ==
    LET arguments == IF ~Parser_check(P, "RightParen")
                     THEN Parser_rule("finish_call_arguments", P, <<>>)
                     ELSE POk(<<>>, P)
    IN IF ~arguments.ok THEN arguments
       ELSE
    LET paren == Parser_consume(arguments.P, "RightParen", "Expect ')' after arguments.")
    IN IF ~paren.ok THEN paren
       ELSE POk(Call_make(callee, Parser_previous(P), arguments.v), paren.P)

Parser_finish_call(P, callee) ==
    LET arguments == IF ~Parser_check(P, "RightParen")
                     THEN Parser_rule("finish_call_arguments", P, <<>>)
                     ELSE POk(<<>>, P)
    IN IF ~arguments.ok THEN arguments
       ELSE
    LET paren == Parser_consume(arguments.P, "RightParen", "Expect ')' after arguments.")
    IN IF ~paren.ok THEN paren
       ELSE POk(Call_make(callee, paren.v, arguments.v), paren.P)

call_loop(P, expr) ==
    LET paren == Parser_match(P, {"LeftParen"})
        call == Parser_rule("Parser_finish_call", paren.P, expr)
        dot == Parser_match(P, {"Dot"})
        name == Parser_consume(dot.P, "Identifier", "Expect property name after '.'.")
    IN IF paren.hit
       THEN IF ~call.ok THEN call ELSE Parser_rule("call_loop", call.P, call.v)
       ELSE IF dot.hit
       THEN IF ~name.ok THEN name ELSE Parser_rule("call_loop", name.P, ExprGet(expr, name.v.lexeme))
       ELSE POk(expr, P)

Parser_call(P) ==
    LET expr == Parser_rule("Parser_primary", P, None)
    IN IF ~expr.ok THEN expr ELSE Parser_rule("call_loop", expr.P, expr.v)

Parser_primary(P) ==
    LET P1 == Parser_advance(P)
        u == unique_usize(P1)
    IN CASE Parser_check(P, "False") -> POk(ExprLiteral(OBoolean(FALSE)), P1)
         [] Parser_check(P, "True") -> POk(ExprLiteral(OBoolean(TRUE)), P1)
         [] Parser_check(P, "Nil") -> POk(ExprLiteral(ONil), P1)
         [] Parser_check(P, "Number") \/ Parser_check(P, "String") ->
               POk(ExprLiteral(Parser_previous(P1).literal), P1)
         [] Parser_check(P, "Super") ->
               LET dot == Parser_consume(P1, "Dot", "Expect '.' after 'super'.")
                   method == Parser_consume(dot.P, "Identifier",
                                            "Expect superclass method name.")
                   us == unique_usize(method.P)
               IN IF ~dot.ok THEN dot
                  ELSE IF ~method.ok THEN method
                  ELSE POk(ExprSuper(method.v.lexeme, us.id), us.P)
         [] Parser_check(P, "This") -> POk(ExprThis(u.id), u.P)
         [] Parser_check(P, "Identifier") ->
               POk(ExprVariable(Parser_previous(P1).lexeme, u.id), u.P)
         [] Parser_check(P, "LeftParen") ->
               LET expr == Parser_rule("Parser_expression", P1, None)
                   close == Parser_consume(expr.P, "RightParen",
                                           "Expect ')' after expression.")
               IN IF ~expr.ok THEN expr
                  ELSE IF ~close.ok THEN close
                  ELSE POk(ExprGrouping(expr.v), close.P)
         [] OTHER -> PErr(Parser_error(P, Parser_peek(P), "Expect expression."))

(* A parsing method calls another through Parser_rule, which names the     *)
(* method called; x is its second argument, None for a method without one. *)
Parser_rule(rule, P, x) ==
    CASE rule = "Parser_expression" -> Parser_expression(P)
      [] rule = "class_declaration_methods" -> class_declaration_methods(P, x)
      [] rule = "Parser_class_declaration" -> Parser_class_declaration(P)
      [] rule = "Parser_for_statement" -> Parser_for_statement(P)
      [] rule = "Parser_if_statement" -> Parser_if_statement(P)
      [] rule = "Parser_print_statement" -> Parser_print_statement(P)
      [] rule = "Parser_return_statement" -> Parser_return_statement(P)
      [] rule = "Parser_var_declaration" -> Parser_var_declaration(P)
      [] rule = "Parser_while_statement" -> Parser_while_statement(P)
      [] rule = "Parser_expression_statement" -> Parser_expression_statement(P)
      [] rule = "Parser_statement" -> Parser_statement(P)
      [] rule = "function_parameters" -> function_parameters(P, x)
      [] rule = "Parser_function" -> Parser_function(P, x)
      [] rule = "block_statements" -> block_statements(P, x)
      [] rule = "Parser_block" -> Parser_block(P)
      [] rule = "Parser_declaration" -> Parser_declaration(P)
      [] rule = "Parser_assignment" -> Parser_assignment(P)
      [] rule = "or_loop" -> or_loop(P, x)
      [] rule = "Parser_or" -> Parser_or(P)
      [] rule = "and_loop" -> and_loop(P, x)
      [] rule = "Parser_and" -> Parser_and(P)
      [] rule = "equality_loop" -> equality_loop(P, x)
      [] rule = "Parser_equality" -> Parser_equality(P)
      [] rule = "comparison_loop" -> comparison_loop(P, x)
      [] rule = "Parser_comparison" -> Parser_comparison(P)
      [] rule = "term_loop" -> term_loop(P, x)
      [] rule = "Parser_term" -> Parser_term(P)
      [] rule = "factor_loop" -> factor_loop(P, x)
      [] rule = "Parser_factor" -> Parser_factor(P)
      [] rule = "Parser_unary" -> Parser_unary(P)
      [] rule = "finish_call_arguments" -> finish_call_arguments(P, x)
      [] rule = "Parser_finish_call" -> Parser_finish_call(P, x)
      [] rule = "call_loop" -> call_loop(P, x)
      [] rule = "Parser_call" -> Parser_call(P)
      [] rule = "Parser_primary" -> Parser_primary(P)

-----------------------------------------------------------------------------
(* Resolver (src/src/resolver.rs).  The resolver is a pure walk over the   *)
(* statement list; its state is threaded through the operators as the      *)
(* record R = [scopes, current_function, current_class, locals, errors].   *)

Resolver_new ==
    [scopes |-> <<>>, current_function |-> "None", current_class |-> "None",
     locals |-> <<>>, errors |-> <<>>, panicked |-> FALSE]

Resolver_error(R, message) == [R EXCEPT !.errors = Append(@, message)]

begin_scope(R) == [R EXCEPT !.scopes = Append(@, <<>>)]

(* panicked: pop() gave None and expect("Scope stack underflow.") aborted  *)
end_scope(R) ==
    IF R.scopes = <<>> THEN [R EXCEPT !.panicked = TRUE]
    ELSE [R EXCEPT !.scopes = SubSeq(@, 1, Len(@) - 1)]

scope_insert(R, name, defined) ==
    [R EXCEPT !.scopes[Len(R.scopes)] = (name :> defined) @@ @]

(* declare without the contains_key test;                                  *)
(* RedeclarationIsReportedInLocalScopes must reject it                     *)
declare_unchecked(R, name) ==
    IF Len(R.scopes) = 0 THEN R ELSE scope_insert(R, name, FALSE)

declare(R, name) ==
    IF Len(R.scopes) = 0 THEN R
    ELSE LET R1 == IF name \in DOMAIN R.scopes[Len(R.scopes)]
                   THEN Resolver_error(R, "Already a variable with this name in this scope.")
                   ELSE R
         IN scope_insert(R1, name, FALSE)

define(R, name) ==
    IF Len(R.scopes) = 0 THEN R ELSE scope_insert(R, name, TRUE)

(* Interpreter::resolve *)
Interpreter_resolve(R, expr_id, depth) ==
    [R EXCEPT !.locals = (expr_id :> depth) @@ @]

resolve_local(R, expr_id, name) ==
    LET n == Len(R.scopes)
        hits == {i \in 0..(n - 1) : name \in DOMAIN R.scopes[n - i]}
    IN IF hits = {} THEN R
       ELSE Interpreter_resolve(R, expr_id,
                CHOOSE i \in hits : \A j \in hits : i <= j)

RECURSIVE Resolver_resolve_stmts(_, _)
RECURSIVE Resolver_resolve_stmt(_, _)
RECURSIVE Resolver_resolve_expr(_, _)
RECURSIVE Resolver_resolve_exprs(_, _)
RECURSIVE Resolver_resolve_methods(_, _)

(* the `for param in &function.params` loop of resolve_function *)
RECURSIVE declare_params(_, _)
declare_params(R, params) ==
    IF params = <<>> THEN R
    ELSE declare_params(define(declare(R, Head(params)), Head(params)), Tail(params))

(* resolve_function that leaves current_function at the kind of the        *)
(* function it resolved; FunctionTypeIsLexical must reject it              *)
resolve_function_no_restore(R, function, type) ==
    LET R1 == begin_scope([R EXCEPT !.current_function = type])
    IN end_scope(Resolver_resolve_stmts(declare_params(R1, function.params),
                                        function.body))

resolve_function(R, function, type) ==
    LET enclosing_function == R.current_function
        R1 == begin_scope([R EXCEPT !.current_function = type])
        R2 == Resolver_resolve_stmts(declare_params(R1, function.params), function.body)
    IN [end_scope(R2) EXCEPT !.current_function = enclosing_function]

Resolver_visit_block_stmt(R, stmt) ==
    end_scope(Resolver_resolve_stmts(begin_scope(R), stmt.statements))

Resolver_visit_variable_expr(R, expr) ==
    LET n == Len(R.scopes)
        R1 == IF /\ n > 0
                 /\ expr.name \in DOMAIN R.scopes[n]
                 /\ R.scopes[n][expr.name] = FALSE
              THEN Resolver_error(R, "Can't read local variable in its own initializer.")
              ELSE R
    IN resolve_local(R1, expr.id, expr.name)

(* visit_class_stmt that leaves current_class at the kind of the class it  *)
(* resolved; ClassTypeIsLexical must reject it                             *)
Resolver_visit_class_stmt_no_restore(R, stmt) ==
    LET R1 == define(declare([R EXCEPT !.current_class = "Class"], stmt.name), stmt.name)
        has_super == stmt.superclass.t # "None"
        R2 == IF has_super
              THEN Resolver_visit_variable_expr(
                       [R1 EXCEPT !.current_class = "SubClass"], stmt.superclass)
              ELSE R1
        R3 == IF has_super THEN scope_insert(begin_scope(R2), "super", TRUE) ELSE R2
        R5 == Resolver_resolve_methods(scope_insert(begin_scope(R3), "this", TRUE),
                                       stmt.methods)
    IN IF has_super THEN end_scope(end_scope(R5)) ELSE end_scope(R5)

Resolver_visit_class_stmt(R, stmt) ==
    LET enclosing_class == R.current_class
        R1 == define(declare([R EXCEPT !.current_class = "Class"], stmt.name), stmt.name)
        has_super == stmt.superclass.t # "None"
        R2 == IF has_super
              THEN LET R2a == IF stmt.name = stmt.superclass.name
                              THEN Resolver_error(R1, "A class can't inherit from itself.")
                              ELSE R1
                   IN Resolver_visit_variable_expr(
                          [R2a EXCEPT !.current_class = "SubClass"], stmt.superclass)
              ELSE R1
        R3 == IF has_super THEN scope_insert(begin_scope(R2), "super", TRUE) ELSE R2
        R4 == scope_insert(begin_scope(R3), "this", TRUE)
        R5 == Resolver_resolve_methods(R4, stmt.methods)
        R6 == end_scope(R5)
        R7 == IF has_super THEN end_scope(R6) ELSE R6
    IN [R7 EXCEPT !.current_class = enclosing_class]

Resolver_visit_function_stmt(R, stmt) ==
    resolve_function(define(declare(R, stmt.name), stmt.name), stmt, "Function")

Resolver_visit_if_stmt(R, stmt) ==
    LET R1 == Resolver_resolve_stmt(Resolver_resolve_expr(R, stmt.condition),
                                    stmt.then_branch)
    IN IF stmt.else_branch.t # "None"
       THEN Resolver_resolve_stmt(R1, stmt.else_branch)
       ELSE R1

(* Resolver_visit_return_stmt with the fault of accepting a return at top  *)
(* level; ReturnNeverReachesDriver must reject it                          *)
Resolver_visit_return_stmt_unchecked(R, stmt) ==
    IF stmt.value.t # "None"
    THEN LET R2 == IF R.current_function = "Initializer"
                   THEN Resolver_error(R, "Can't return a value from an initializer.")
                   ELSE R
         IN Resolver_resolve_expr(R2, stmt.value)
    ELSE R

Resolver_visit_return_stmt(R, stmt) ==
    LET R1 == IF R.current_function = "None"
              THEN Resolver_error(R, "Can't return from top-level code.")
              ELSE R
    IN IF stmt.value.t # "None"
       THEN LET R2 == IF R1.current_function = "Initializer"
                      THEN Resolver_error(R1, "Can't return a value from an initializer.")
                      ELSE R1
            IN Resolver_resolve_expr(R2, stmt.value)
       ELSE R1

(* visit_var_stmt defining the name before its initializer is resolved;   *)
(* OwnInitializerIsReported must reject it                                 *)
Resolver_visit_var_stmt_define_first(R, stmt) ==
    LET R1 == define(declare(R, stmt.name), stmt.name)
    IN IF stmt.initializer.t # "None"
       THEN Resolver_resolve_expr(R1, stmt.initializer)
       ELSE R1

Resolver_visit_var_stmt(R, stmt) ==
    LET R1 == declare(R, stmt.name)
        R2 == IF stmt.initializer.t # "None"
              THEN Resolver_resolve_expr(R1, stmt.initializer)
              ELSE R1
    IN define(R2, stmt.name)

Resolver_visit_while_stmt(R, stmt) ==
    Resolver_resolve_stmt(Resolver_resolve_expr(R, stmt.condition), stmt.body)

Resolver_visit_assign_expr(R, expr) ==
    resolve_local(Resolver_resolve_expr(R, expr.value), expr.id, expr.name)

Resolver_visit_call_expr(R, expr) ==
    Resolver_resolve_exprs(Resolver_resolve_expr(R, expr.callee), expr.arguments)

Resolver_visit_set_expr(R, expr) ==
    Resolver_resolve_expr(Resolver_resolve_expr(R, expr.value), expr.object)

Resolver_visit_super_expr(R, expr) ==
    LET R1 == IF R.current_class = "None"
              THEN Resolver_error(R, "Can't use 'super' outside of a class.")
              ELSE IF R.current_class # "SubClass"
              THEN Resolver_error(R, "Can't use 'super' in a class with no superclass.")
              ELSE R
    IN resolve_local(R1, expr.id, expr.keyword)

Resolver_visit_this_expr(R, expr) ==
    IF R.current_class = "None"
    THEN Resolver_error(R, "Can't use 'this' outside of a class.")
    ELSE resolve_local(R, expr.id, expr.keyword)

(* resolve_stmts with the fault of ending the walk after the first         *)
(* statement that reported an error; ResolverWalksWholeList must reject it *)
RECURSIVE Resolver_resolve_stmts_halts(_, _)
Resolver_resolve_stmts_halts(R, stmts) ==
    IF stmts = <<>> THEN R
    ELSE LET R1 == Resolver_resolve_stmt(R, Head(stmts))
         IN IF Len(R1.errors) > Len(R.errors) THEN R1
            ELSE Resolver_resolve_stmts_halts(R1, Tail(stmts))

Resolver_resolve_stmts(R, stmts) ==
    IF stmts = <<>> THEN R
    ELSE Resolver_resolve_stmts(Resolver_resolve_stmt(R, Head(stmts)), Tail(stmts))

Resolver_resolve_exprs(R, exprs) ==
    IF exprs = <<>> THEN R
    ELSE Resolver_resolve_exprs(Resolver_resolve_expr(R, Head(exprs)), Tail(exprs))

(* the `for method in &stmt.methods` loop of Resolver::visit_class_stmt *)
Resolver_resolve_methods(R, methods) ==
    IF methods = <<>> THEN R
    ELSE Resolver_resolve_methods(
             resolve_function(R, Head(methods),
                 IF Head(methods).name = "init" THEN "Initializer" ELSE "Method"),
             Tail(methods))

(* TLC passes operator arguments unevaluated; the test of R.errors makes   *)
(* it compute the resolver state reached so far before it descends into    *)
(* the next node, which keeps the evaluation stack as deep as the tree and *)
(* not as long as the walk.                                                *)
Resolver_resolve_stmt(R, stmt) ==
    CASE Len(R.errors) < 0 -> R
      [] stmt.t = "Block" -> Resolver_visit_block_stmt(R, stmt)
      [] stmt.t = "Class" -> Resolver_visit_class_stmt(R, stmt)
      [] stmt.t = "Expression" -> Resolver_resolve_expr(R, stmt.expression)
      [] stmt.t = "Function" -> Resolver_visit_function_stmt(R, stmt)
      [] stmt.t = "If" -> Resolver_visit_if_stmt(R, stmt)
      [] stmt.t = "Print" -> Resolver_resolve_expr(R, stmt.expression)
      [] stmt.t = "Return" -> Resolver_visit_return_stmt(R, stmt)
      [] stmt.t = "Var" -> Resolver_visit_var_stmt(R, stmt)
      [] stmt.t = "While" -> Resolver_visit_while_stmt(R, stmt)

Resolver_resolve_expr(R, expr) ==
    CASE Len(R.errors) < 0 -> R
      [] expr.t = "Assign" -> Resolver_visit_assign_expr(R, expr)
      [] expr.t = "Binary" ->
            Resolver_resolve_expr(Resolver_resolve_expr(R, expr.left), expr.right)
      [] expr.t = "Call" -> Resolver_visit_call_expr(R, expr)
      [] expr.t = "Get" -> Resolver_resolve_expr(R, expr.object)
      [] expr.t = "Grouping" -> Resolver_resolve_expr(R, expr.expression)
      [] expr.t = "Literal" -> R
      [] expr.t = "Logical" ->
            Resolver_resolve_expr(Resolver_resolve_expr(R, expr.left), expr.right)
      [] expr.t = "Set" -> Resolver_visit_set_expr(R, expr)
      [] expr.t = "Super" -> Resolver_visit_super_expr(R, expr)
      [] expr.t = "This" -> Resolver_visit_this_expr(R, expr)
      [] expr.t = "Unary" -> Resolver_resolve_expr(R, expr.right)
      [] expr.t = "Variable" -> Resolver_visit_variable_expr(R, expr)

Resolver_resolve(stmts) == Resolver_resolve_stmts(Resolver_new, stmts)

-----------------------------------------------------------------------------
(* Result values: Ok(v), Err(e); RuntimeError and Return are the two       *)
(* error types that travel on the Err channel.                             *)

Ok(v) == [ok |-> TRUE, v |-> v]
Err(e) == [ok |-> FALSE, e |-> e]

(* RuntimeError::new (src/src/runtime_error.rs) *)
RuntimeError(token, message) ==
    [kind |-> "RuntimeError", token |-> token, message |-> message]

(* Return::new (src/src/lox_return.rs) *)
Return(value) == [kind |-> "Return", value |-> value]

-----------------------------------------------------------------------------
(* Environment (src/src/environment.rs).  F is the frame heap; a frame is  *)
(* named by its index, and enclosing = 0 stands for None.                  *)

Environment_new(enclosing) == [enclosing |-> enclosing, values |-> <<>>]

Environment_define(F, env, name, value) ==
    [F EXCEPT ![env].values = (name :> value) @@ @]

RECURSIVE Environment_get(_, _, _)
Environment_get(F, env, name) ==
    IF name \in DOMAIN F[env].values THEN Ok(F[env].values[name])
    ELSE IF F[env].enclosing # 0 /\ Environment_get(F, F[env].enclosing, name).ok
    THEN Environment_get(F, F[env].enclosing, name)
    ELSE Err(RuntimeError(name, "Undefined variable '" \o name \o "'."))

(* Environment_assign with the fault of defining the name in the outermost *)
(* frame when no frame binds it; AssignNeverCreates must reject it         *)
RECURSIVE Environment_assign_defines(_, _, _, _)
Environment_assign_defines(F, env, name, value) ==
    IF name \in DOMAIN F[env].values
    THEN Ok([F EXCEPT ![env].values[name] = value])
    ELSE IF F[env].enclosing # 0
    THEN Environment_assign_defines(F, F[env].enclosing, name, value)
    ELSE Ok(Environment_define(F, env, name, value))

RECURSIVE Environment_assign(_, _, _, _)
Environment_assign(F, env, name, value) ==
    IF name \in DOMAIN F[env].values
    THEN Ok([F EXCEPT ![env].values[name] = value])
    ELSE IF F[env].enclosing # 0
    THEN Environment_assign(F, F[env].enclosing, name, value)
    ELSE Err(RuntimeError(name, "Undefined variable " \o name \o "."))

(* 0 when the walk unwraps a missing parent (a panic in the source) *)
RECURSIVE ancestor(_, _, _)
ancestor(F, env, distance) ==
    IF distance = 0 THEN env
    ELSE IF F[env].enclosing = 0 THEN 0
    ELSE ancestor(F, F[env].enclosing, distance - 1)

(* Err("panic") stands for the two panics get_at can raise *)
get_at(F, env, distance, name) ==
    LET a == ancestor(F, env, distance)
    IN IF a = 0 THEN Err("Option::unwrap on None in ancestor")
       ELSE IF name \notin DOMAIN F[a].values
       THEN Err("Didn't find local variable")
       ELSE Ok(F[a].values[name])

assign_at(F, env, distance, name, value) ==
    LET a == ancestor(F, env, distance)
    IN IF a = 0 THEN Err("Option::unwrap on None in ancestor")
       ELSE Ok(Environment_define(F, a, name, value))

-----------------------------------------------------------------------------
(* LoxFunction, LoxClass, LoxInstance.  C is the class heap, I the         *)
(* instance heap; superclass = 0 stands for None.                          *)

LoxFunction_arity(function) == Len(function.declaration.params)

(* LoxFunction::bind: a new frame holding "this", and a new function       *)
(* object (LoxFunction::new draws a fresh id).                             *)
LoxFunction_bind(F, counter, function, instance) ==
    LET env == Len(F) + 1
        F1 == Append(F, Environment_new(function.closure))
    IN [frames |-> Environment_define(F1, env, "this", OInstance(instance)),
        counter |-> counter + 1,
        function |-> LoxFunction_new(function.declaration, env,
                                     function.is_initializer, counter + 1)]

RECURSIVE find_method(_, _, _)
find_method(C, class, name) ==
    IF name \in DOMAIN C[class].methods THEN Ok(C[class].methods[name])
    ELSE IF C[class].superclass # 0 THEN find_method(C, C[class].superclass, name)
    ELSE Err("None")

(* LoxClass_arity with the fault of looking for `init` in the class only,  *)
(* not up its superclass chain; ClassCallConstructs must reject it         *)
LoxClass_arity_own(C, class) ==
    IF "init" \in DOMAIN C[class].methods
    THEN LoxFunction_arity(C[class].methods["init"])
    ELSE 0

LoxClass_arity(C, class) ==
    IF find_method(C, class, "init").ok
    THEN LoxFunction_arity(find_method(C, class, "init").v)
    ELSE 0

LoxCallable_arity(C, callable) ==
    CASE callable.kind = "Class" -> LoxClass_arity(C, callable.class)
      [] callable.kind = "Clock" -> 0
      [] callable.kind = "Function" -> LoxFunction_arity(callable)

LoxInstance_new(class) == [class |-> class, fields |-> <<>>]

LoxInstance_set(I, instance, name, value) ==
    [I EXCEPT ![instance].fields = (name :> value) @@ @]

-----------------------------------------------------------------------------
(* Display for Object (src/src/object.rs:20-32) *)
Display(C, I, object) ==
    CASE object.k = "Boolean" -> IF object.b THEN "true" ELSE "false"
      [] object.k = "Callable" ->
            (CASE object.callable.kind = "Class" -> C[object.callable.class].name
               [] object.callable.kind = "Clock" -> "<global fn>"
               [] object.callable.kind = "Function" ->
                     "<fn " \o object.callable.declaration.name \o ">")
      [] object.k = "Class" -> C[object.class].name
      [] object.k = "Instance" -> C[I[object.instance].class].name \o " instance"
      [] object.k = "Nil" -> "nil"
      [] object.k = "Number" -> ToString(object.n)
      [] object.k = "String" -> object.s

is_truthy(object) ==
    CASE object.k = "Nil" -> FALSE
      [] object.k = "Boolean" -> object.b
      [] OTHER -> TRUE

-----------------------------------------------------------------------------
(* Object equality (src/src/object.rs:36-49).  Callables and classes are   *)
(* compared by id; LoxInstance derives PartialEq, so two instances are     *)
(* compared field by field (class, then the contents of the field map).    *)
(* HashMap equality compares the sizes, then visits the entries of the     *)
(* left map in an unspecified order and stops at the first one that the    *)
(* right map lacks or holds unequal, so the operator yields the SET of     *)
(* outcomes                                                                *)
(* the comparison can have; "overflow" is unbounded recursion through a    *)
(* field map that refers back to its instance.                             *)

EqDepth == 4

RECURSIVE Object_eq(_, _, _, _, _)
Object_eq(C, I, a, b, fuel) ==
    IF a.k # b.k THEN {"false"}
    ELSE CASE a.k = "Boolean" -> {IF a.b = b.b THEN "true" ELSE "false"}
           [] a.k = "Callable" ->
                 LET ida == IF a.callable.kind = "Class"
                            THEN C[a.callable.class].id ELSE a.callable.id
                     idb == IF b.callable.kind = "Class"
                            THEN C[b.callable.class].id ELSE b.callable.id
                 IN {IF ida = idb THEN "true" ELSE "false"}
           [] a.k = "Class" -> {IF C[a.class].id = C[b.class].id THEN "true" ELSE "false"}
           [] a.k = "Instance" ->
                 LET ia == I[a.instance]
                     ib == I[b.instance]
                 IN IF C[ia.class].id # C[ib.class].id THEN {"false"}
                    ELSE IF Cardinality(DOMAIN ia.fields) # Cardinality(DOMAIN ib.fields)
                    THEN {"false"}
                    ELSE IF DOMAIN ia.fields = {} THEN {"true"}
                    ELSE IF fuel = 0 THEN {"overflow"}
                    ELSE LET S(n) == IF n \notin DOMAIN ib.fields THEN {"false"}
                                     ELSE Object_eq(C, I, ia.fields[n], ib.fields[n],
                                                    fuel - 1)
                             D == DOMAIN ia.fields
                         IN {o \in {"true"} : \A n \in D : "true" \in S(n)}
                            \cup {o \in {"false", "overflow"} : \E n \in D : o \in S(n)}
           [] a.k = "Nil" -> {"true"}
           [] a.k = "Number" -> {IF a.n = b.n THEN "true" ELSE "false"}
           [] a.k = "String" -> {IF a.s = b.s THEN "true" ELSE "false"}

(* is_equal (interpreter.rs:494-501); numbers are integers here, so the    *)
(* NaN arm never applies.                                                  *)
is_equal(C, I, a, b) == Object_eq(C, I, a, b, EqDepth)

check_number_operand(operator, operand) ==
    IF operand.k = "Number" THEN Ok(operand.n)
    ELSE Err(RuntimeError(operator, "Operand must be a number."))

check_number_operands(operator, left, right) ==
    IF left.k = "Number" /\ right.k = "Number" THEN Ok(<<left.n, right.n>>)
    ELSE Err(RuntimeError(operator, "Operands must be numbers."))

(* the arithmetic and comparison arms of visit_binary_expr *)
binary_arith(operator, left, right) ==
    IF operator = "+"
    THEN IF left.k = "Number" /\ right.k = "Number" THEN Ok(ONumber(left.n + right.n))
         ELSE IF left.k = "String" /\ right.k = "String" THEN Ok(OString(left.s \o right.s))
         ELSE Err(RuntimeError(operator, "Operands must be two numbers or two strings."))
    ELSE LET c == check_number_operands(operator, left, right)
         IN IF ~c.ok THEN c
            ELSE CASE operator = ">" -> Ok(OBoolean(c.v[1] > c.v[2]))
                   [] operator = ">=" -> Ok(OBoolean(c.v[1] >= c.v[2]))
                   [] operator = "<" -> Ok(OBoolean(c.v[1] < c.v[2]))
                   [] operator = "<=" -> Ok(OBoolean(c.v[1] <= c.v[2]))
                   [] operator = "-" -> Ok(ONumber(c.v[1] - c.v[2]))
                   [] operator = "*" -> Ok(ONumber(c.v[1] * c.v[2]))

-----------------------------------------------------------------------------
(* The interpreter machine.                                                *)

Exec(stmt) == [m |-> "exec", stmt |-> stmt]     \* about to call execute(stmt)
Eval(expr) == [m |-> "eval", expr |-> expr]     \* about to call evaluate(expr)
Unit == [m |-> "ok"]                            \* a statement returned Ok(())
Value(v) == [m |-> "value", v |-> v]            \* an expression returned Ok(v)
Raise(e) == [m |-> "err", e |-> e]              \* Err(e) is travelling up
Panic(why) == [m |-> "panic", why |-> why]      \* the process aborted
AtCall == [m |-> "call"]                        \* visit_call_expr, line 328
Stopped == [m |-> "stopped"]                    \* interpret() has returned

globals == 1

program == <<prog, tokens, current, parse_errors, parser_panicked, counter_usize,
             statements, locals, errors, threads>>

static == <<program, lox>>

Running == pc = "interpret" /\ kont # <<>>
Top == Head(kont)
Push(fr) == <<fr>> \o kont
Replace(fr) == <<fr>> \o Tail(kont)

(* the activations that forward an Err unchanged with `?` *)
QuestionMark ==
    {"visit_expression_stmt", "visit_if_stmt", "visit_print_stmt",
     "visit_return_stmt", "visit_var_stmt", "visit_while_stmt",
     "visit_class_stmt", "visit_assign_expr", "visit_binary_expr",
     "visit_call_expr", "visit_get_expr", "visit_logical_expr",
     "visit_set_expr", "LoxClass_call"}

propagate ==
    /\ Running /\ ctl.m = "err" /\ Top.f \in QuestionMark
    /\ kont' = Tail(kont)
    /\ UNCHANGED <<pc, static, frames, environment, classes, instances,
                   counter_u128, ctl, output, runtime_errors>>

(* Interpreter::interpret, the loop over the top-level statements *)
interpret ==
    /\ Running /\ ctl.m = "ok" /\ Top.f = "interpret"
    /\ IF Top.rest = <<>>
       THEN /\ pc' = "done" /\ kont' = <<>> /\ ctl' = Stopped
       ELSE /\ ctl' = Exec(Head(Top.rest))
            /\ kont' = Replace([Top EXCEPT !.rest = Tail(@)])
            /\ pc' = pc
    /\ UNCHANGED <<static, frames, environment, classes, instances,
                   counter_u128, output, runtime_errors>>

(* interpret_err with the fault of going on with the next statement after  *)
(* the handler ran; RuntimeErrorStops must reject it                       *)
interpret_err_continues ==
    /\ Running /\ ctl.m = "err" /\ Top.f = "interpret"
    /\ IF ctl.e.kind = "RuntimeError"
       THEN /\ runtime_errors' = Append(runtime_errors, ctl.e)
            /\ lox' = [lox EXCEPT !.had_runtime_error = TRUE]
            /\ ctl' = Unit
            /\ UNCHANGED <<pc, kont>>
       ELSE /\ ctl' = Panic("Unexpected error")
            /\ UNCHANGED <<pc, lox, kont, runtime_errors>>
    /\ UNCHANGED <<program, frames, environment, classes, instances,
                   counter_u128, output>>

(* Interpreter::interpret, the Err arm: the downcast to RuntimeError, the  *)
(* error handler and the return                                            *)
interpret_err ==
    /\ Running /\ ctl.m = "err" /\ Top.f = "interpret"
    /\ IF ctl.e.kind = "RuntimeError"
       THEN /\ runtime_errors' = Append(runtime_errors, ctl.e)
            /\ lox' = [lox EXCEPT !.had_runtime_error = TRUE]
            /\ pc' = "done" /\ kont' = <<>> /\ ctl' = Stopped
       ELSE /\ ctl' = Panic("Unexpected error")
            /\ UNCHANGED <<pc, lox, kont, runtime_errors>>
    /\ UNCHANGED <<program, frames, environment, classes, instances,
                   counter_u128, output>>

(* Interpreter::execute_block, lines 92-93, on the stack K of its caller *)
execute_block_begin(stmts, env, K) ==
    /\ kont' = <<[f |-> "execute_block", rest |-> stmts,
                  previous |-> environment]>> \o K
    /\ environment' = env
    /\ ctl' = Unit

(* Interpreter::execute_block, the loop and the normal exit *)
execute_block ==
    /\ Running /\ ctl.m = "ok" /\ Top.f = "execute_block"
    /\ IF Top.rest = <<>>
       THEN /\ environment' = Top.previous
            /\ kont' = Tail(kont)
            /\ ctl' = Unit
       ELSE /\ ctl' = Exec(Head(Top.rest))
            /\ kont' = Replace([Top EXCEPT !.rest = Tail(@)])
            /\ environment' = environment
    /\ UNCHANGED <<pc, static, frames, classes, instances, counter_u128,
                   output, runtime_errors>>

(* execute_block_err with the fault of leaving the block's frame current   *)
(* when an Err goes out; BlockRestoresFrame must reject it                 *)
execute_block_err_keeps_frame ==
    /\ Running /\ ctl.m = "err" /\ Top.f = "execute_block"
    /\ kont' = Tail(kont)
    /\ UNCHANGED <<pc, static, frames, environment, classes, instances,
                   counter_u128, ctl, output, runtime_errors>>

(* Interpreter::execute_block, the exit on result.is_err() *)
execute_block_err ==
    /\ Running /\ ctl.m = "err" /\ Top.f = "execute_block"
    /\ environment' = Top.previous
    /\ kont' = Tail(kont)
    /\ UNCHANGED <<pc, static, frames, classes, instances, counter_u128,
                   ctl, output, runtime_errors>>

visit_block_stmt ==
    /\ Running /\ ctl.m = "exec" /\ ctl.stmt.t = "Block"
    /\ frames' = Append(frames, Environment_new(environment))
    /\ execute_block_begin(ctl.stmt.statements, Len(frames) + 1, kont)
    /\ UNCHANGED <<pc, static, classes, instances, counter_u128, output,
                   runtime_errors>>

visit_expression_stmt ==
    /\ Running /\ ctl.m = "exec" /\ ctl.stmt.t = "Expression"
    /\ kont' = Push([f |-> "visit_expression_stmt"])
    /\ ctl' = Eval(ctl.stmt.expression)
    /\ UNCHANGED <<pc, static, frames, environment, classes, instances,
                   counter_u128, output, runtime_errors>>

visit_expression_stmt_end ==
    /\ Running /\ ctl.m = "value" /\ Top.f = "visit_expression_stmt"
    /\ kont' = Tail(kont)
    /\ ctl' = Unit
    /\ UNCHANGED <<pc, static, frames, environment, classes, instances,
                   counter_u128, output, runtime_errors>>

visit_function_stmt ==
    /\ Running /\ ctl.m = "exec" /\ ctl.stmt.t = "Function"
    /\ counter_u128' = counter_u128 + 1
    /\ frames' = Environment_define(frames, environment, ctl.stmt.name,
                    OCallable(LoxFunction_new(ctl.stmt, environment, FALSE,
                                              counter_u128 + 1)))
    /\ ctl' = Unit
    /\ UNCHANGED <<pc, static, environment, classes, instances, kont, output,
                   runtime_errors>>

visit_if_stmt ==
    /\ Running /\ ctl.m = "exec" /\ ctl.stmt.t = "If"
    /\ kont' = Push([f |-> "visit_if_stmt", stmt |-> ctl.stmt])
    /\ ctl' = Eval(ctl.stmt.condition)
    /\ UNCHANGED <<pc, static, frames, environment, classes, instances,
                   counter_u128, output, runtime_errors>>

visit_if_stmt_branch ==
    /\ Running /\ ctl.m = "value" /\ Top.f = "visit_if_stmt"
    /\ kont' = Tail(kont)
    /\ ctl' = IF is_truthy(ctl.v) THEN Exec(Top.stmt.then_branch)
              ELSE IF Top.stmt.else_branch.t # "None" THEN Exec(Top.stmt.else_branch)
              ELSE Unit
    /\ UNCHANGED <<pc, static, frames, environment, classes, instances,
                   counter_u128, output, runtime_errors>>

visit_print_stmt ==
    /\ Running /\ ctl.m = "exec" /\ ctl.stmt.t = "Print"
    /\ kont' = Push([f |-> "visit_print_stmt"])
    /\ ctl' = Eval(ctl.stmt.expression)
    /\ UNCHANGED <<pc, static, frames, environment, classes, instances,
                   counter_u128, output, runtime_errors>>

visit_print_stmt_write ==
    /\ Running /\ ctl.m = "value" /\ Top.f = "visit_print_stmt"
    /\ output' = Append(output, Display(classes, instances, ctl.v))
    /\ kont' = Tail(kont)
    /\ ctl' = Unit
    /\ UNCHANGED <<pc, static, frames, environment, classes, instances,
                   counter_u128, runtime_errors>>

visit_return_stmt ==
    /\ Running /\ ctl.m = "exec" /\ ctl.stmt.t = "Return"
    /\ IF ctl.stmt.value.t # "None"
       THEN /\ kont' = Push([f |-> "visit_return_stmt"])
            /\ ctl' = Eval(ctl.stmt.value)
       ELSE /\ kont' = kont
            /\ ctl' = Raise(Return(ONil))
    /\ UNCHANGED <<pc, static, frames, environment, classes, instances,
                   counter_u128, output, runtime_errors>>

visit_return_stmt_raise ==
    /\ Running /\ ctl.m = "value" /\ Top.f = "visit_return_stmt"
    /\ kont' = Tail(kont)
    /\ ctl' = Raise(Return(ctl.v))
    /\ UNCHANGED <<pc, static, frames, environment, classes, instances,
                   counter_u128, output, runtime_errors>>

visit_var_stmt ==
    /\ Running /\ ctl.m = "exec" /\ ctl.stmt.t = "Var"
    /\ IF ctl.stmt.initializer.t # "None"
       THEN /\ kont' = Push([f |-> "visit_var_stmt", stmt |-> ctl.stmt])
            /\ ctl' = Eval(ctl.stmt.initializer)
            /\ frames' = frames
       ELSE /\ frames' = Environment_define(frames, environment, ctl.stmt.name, ONil)
            /\ ctl' = Unit
            /\ kont' = kont
    /\ UNCHANGED <<pc, static, environment, classes, instances, counter_u128,
                   output, runtime_errors>>

(* visit_var_stmt_define with the fault of writing the nearest binding of  *)
(* the name when there is one; VarWritesOwnFrame must reject it            *)
visit_var_stmt_define_assigns ==
    /\ Running /\ ctl.m = "value" /\ Top.f = "visit_var_stmt"
    /\ LET r == Environment_assign(frames, environment, Top.stmt.name, ctl.v)
       IN frames' = IF r.ok THEN r.v
                    ELSE Environment_define(frames, environment, Top.stmt.name, ctl.v)
    /\ kont' = Tail(kont)
    /\ ctl' = Unit
    /\ UNCHANGED <<pc, static, environment, classes, instances, counter_u128,
                   output, runtime_errors>>

visit_var_stmt_define ==
    /\ Running /\ ctl.m = "value" /\ Top.f = "visit_var_stmt"
    /\ frames' = Environment_define(frames, environment, Top.stmt.name, ctl.v)
    /\ kont' = Tail(kont)
    /\ ctl' = Unit
    /\ UNCHANGED <<pc, static, environment, classes, instances, counter_u128,
                   output, runtime_errors>>

visit_while_stmt ==
    /\ Running /\ ctl.m = "exec" /\ ctl.stmt.t = "While"
    /\ kont' = Push([f |-> "visit_while_stmt", stmt |-> ctl.stmt])
    /\ ctl' = Eval(ctl.stmt.condition)
    /\ UNCHANGED <<pc, static, frames, environment, classes, instances,
                   counter_u128, output, runtime_errors>>

(* the condition has been evaluated: run the body or leave the loop *)
visit_while_stmt_test ==
    /\ Running /\ ctl.m = "value" /\ Top.f = "visit_while_stmt"
    /\ IF is_truthy(ctl.v)
       THEN /\ ctl' = Exec(Top.stmt.body) /\ kont' = kont
       ELSE /\ ctl' = Unit /\ kont' = Tail(kont)
    /\ UNCHANGED <<pc, static, frames, environment, classes, instances,
                   counter_u128, output, runtime_errors>>

(* the body returned Ok(()): evaluate the condition again *)
visit_while_stmt_again ==
    /\ Running /\ ctl.m = "ok" /\ Top.f = "visit_while_stmt"
    /\ ctl' = Eval(Top.stmt.condition)
    /\ UNCHANGED <<pc, static, frames, environment, classes, instances,
                   counter_u128, kont, output, runtime_errors>>

-----------------------------------------------------------------------------
(* Expressions *)

visit_literal_expr ==
    /\ Running /\ ctl.m = "eval" /\ ctl.expr.t = "Literal"
    /\ ctl' = Value(ctl.expr.value)
    /\ UNCHANGED <<pc, static, frames, environment, classes, instances,
                   counter_u128, kont, output, runtime_errors>>

(* look_up_variable with the fault of searching the chain of the current   *)
(* frame instead of using the resolved distance; StaticScope must reject   *)
(* it                                                                      *)
look_up_variable_dynamic(name, expr_id) ==
    LET r == Environment_get(frames, environment, name)
    IN IF r.ok THEN Value(r.v) ELSE Raise(r.e)

(* Interpreter::look_up_variable: the Result, as the next control state *)
look_up_variable(name, expr_id) ==
    IF expr_id \in DOMAIN locals
    THEN LET r == get_at(frames, environment, locals[expr_id], name)
         IN IF r.ok THEN Value(r.v) ELSE Panic(r.e)
    ELSE LET r == Environment_get(frames, globals, name)
         IN IF r.ok THEN Value(r.v) ELSE Raise(r.e)

visit_variable_expr ==
    /\ Running /\ ctl.m = "eval" /\ ctl.expr.t = "Variable"
    /\ ctl' = look_up_variable(ctl.expr.name, ctl.expr.id)
    /\ UNCHANGED <<pc, static, frames, environment, classes, instances,
                   counter_u128, kont, output, runtime_errors>>

visit_this_expr ==
    /\ Running /\ ctl.m = "eval" /\ ctl.expr.t = "This"
    /\ ctl' = look_up_variable(ctl.expr.keyword, ctl.expr.id)
    /\ UNCHANGED <<pc, static, frames, environment, classes, instances,
                   counter_u128, kont, output, runtime_errors>>

visit_assign_expr ==
    /\ Running /\ ctl.m = "eval" /\ ctl.expr.t = "Assign"
    /\ kont' = Push([f |-> "visit_assign_expr", expr |-> ctl.expr])
    /\ ctl' = Eval(ctl.expr.value)
    /\ UNCHANGED <<pc, static, frames, environment, classes, instances,
                   counter_u128, output, runtime_errors>>

visit_assign_expr_store ==
    /\ Running /\ ctl.m = "value" /\ Top.f = "visit_assign_expr"
    /\ IF Top.expr.id \in DOMAIN locals
       THEN LET r == assign_at(frames, environment, locals[Top.expr.id],
                               Top.expr.name, ctl.v)
            IN IF r.ok THEN frames' = r.v /\ ctl' = Value(ctl.v)
               ELSE frames' = frames /\ ctl' = Panic(r.e)
       ELSE LET r == Environment_assign(frames, globals, Top.expr.name, ctl.v)
            IN IF r.ok THEN frames' = r.v /\ ctl' = Value(ctl.v)
               ELSE frames' = frames /\ ctl' = Raise(r.e)
    /\ kont' = Tail(kont)
    /\ UNCHANGED <<pc, static, environment, classes, instances, counter_u128,
                   output, runtime_errors>>

visit_binary_expr ==
    /\ Running /\ ctl.m = "eval" /\ ctl.expr.t = "Binary"
    /\ kont' = Push([f |-> "visit_binary_expr", expr |-> ctl.expr, at |-> "left"])
    /\ ctl' = Eval(ctl.expr.left)
    /\ UNCHANGED <<pc, static, frames, environment, classes, instances,
                   counter_u128, output, runtime_errors>>

visit_binary_expr_left ==
    /\ Running /\ ctl.m = "value" /\ Top.f = "visit_binary_expr" /\ Top.at = "left"
    /\ kont' = Replace([f |-> "visit_binary_expr", expr |-> Top.expr,
                        at |-> "right", left |-> ctl.v])
    /\ ctl' = Eval(Top.expr.right)
    /\ UNCHANGED <<pc, static, frames, environment, classes, instances,
                   counter_u128, output, runtime_errors>>

visit_binary_expr_right ==
    /\ Running /\ ctl.m = "value" /\ Top.f = "visit_binary_expr" /\ Top.at = "right"
    /\ kont' = Tail(kont)
    /\ IF Top.expr.operator \in {"==", "!="}
       THEN \E o \in is_equal(classes, instances, Top.left, ctl.v) :
               ctl' = IF o = "overflow" THEN Panic("stack overflow")
                      ELSE Value(OBoolean((o = "true") = (Top.expr.operator = "==")))
       ELSE LET r == binary_arith(Top.expr.operator, Top.left, ctl.v)
            IN ctl' = IF r.ok THEN Value(r.v) ELSE Raise(r.e)
    /\ UNCHANGED <<pc, static, frames, environment, classes, instances,
                   counter_u128, output, runtime_errors>>

visit_logical_expr ==
    /\ Running /\ ctl.m = "eval" /\ ctl.expr.t = "Logical"
    /\ kont' = Push([f |-> "visit_logical_expr", expr |-> ctl.expr])
    /\ ctl' = Eval(ctl.expr.left)
    /\ UNCHANGED <<pc, static, frames, environment, classes, instances,
                   counter_u128, output, runtime_errors>>

(* visit_logical_expr_left with the fault of going on to the right        *)
(* operand whatever the left one is; LogicalShortCircuits must reject it   *)
visit_logical_expr_left_eager ==
    /\ Running /\ ctl.m = "value" /\ Top.f = "visit_logical_expr"
    /\ kont' = Tail(kont)
    /\ ctl' = Eval(Top.expr.right)
    /\ UNCHANGED <<pc, static, frames, environment, classes, instances,
                   counter_u128, output, runtime_errors>>

visit_logical_expr_left ==
    /\ Running /\ ctl.m = "value" /\ Top.f = "visit_logical_expr"
    /\ kont' = Tail(kont)
    /\ ctl' = IF Top.expr.operator = "or"
              THEN IF is_truthy(ctl.v) THEN ctl ELSE Eval(Top.expr.right)
              ELSE IF ~is_truthy(ctl.v) THEN ctl ELSE Eval(Top.expr.right)
    /\ UNCHANGED <<pc, static, frames, environment, classes, instances,
                   counter_u128, output, runtime_errors>>

(* LoxInstance_get with the fault of looking in the method tables before   *)
(* the field map; PropertyLookupOrder must reject it                       *)
LoxInstance_get_methods_first(instance, name) ==
    LET method == find_method(classes, instances[instance].class, name)
    IN IF method.ok
       THEN LET B == LoxFunction_bind(frames, counter_u128, method.v, instance)
            IN [result |-> Ok(OCallable(B.function)),
                frames |-> B.frames, counter |-> B.counter]
       ELSE IF name \in DOMAIN instances[instance].fields
       THEN [result |-> Ok(instances[instance].fields[name]),
             frames |-> frames, counter |-> counter_u128]
       ELSE [result |-> Err(RuntimeError(name,
                            "Undefined property " \o name \o ".")),
             frames |-> frames, counter |-> counter_u128]

(* LoxInstance::get: the Result together with the heap after it *)
LoxInstance_get(instance, name) ==
    IF name \in DOMAIN instances[instance].fields
    THEN [result |-> Ok(instances[instance].fields[name]),
          frames |-> frames, counter |-> counter_u128]
    ELSE LET method == find_method(classes, instances[instance].class, name)
         IN IF method.ok
            THEN LET B == LoxFunction_bind(frames, counter_u128, method.v, instance)
                 IN [result |-> Ok(OCallable(B.function)),
                     frames |-> B.frames, counter |-> B.counter]
            ELSE [result |-> Err(RuntimeError(name,
                                 "Undefined property " \o name \o ".")),
                  frames |-> frames, counter |-> counter_u128]

visit_get_expr ==
    /\ Running /\ ctl.m = "eval" /\ ctl.expr.t = "Get"
    /\ kont' = Push([f |-> "visit_get_expr", expr |-> ctl.expr])
    /\ ctl' = Eval(ctl.expr.object)
    /\ UNCHANGED <<pc, static, frames, environment, classes, instances,
                   counter_u128, output, runtime_errors>>

visit_get_expr_object ==
    /\ Running /\ ctl.m = "value" /\ Top.f = "visit_get_expr"
    /\ kont' = Tail(kont)
    /\ IF ctl.v.k = "Instance"
       THEN LET g == LoxInstance_get(ctl.v.instance, Top.expr.name)
            IN /\ ctl' = IF g.result.ok THEN Value(g.result.v) ELSE Raise(g.result.e)
               /\ frames' = g.frames
               /\ counter_u128' = g.counter
       ELSE /\ ctl' = Raise(RuntimeError(Top.expr.name, "Only instances have properties."))
            /\ UNCHANGED <<frames, counter_u128>>
    /\ UNCHANGED <<pc, static, environment, classes, instances, output,
                   runtime_errors>>

(* visit_grouping_expr returns what evaluate returns *)
visit_grouping_expr ==
    /\ Running /\ ctl.m = "eval" /\ ctl.expr.t = "Grouping"
    /\ ctl' = Eval(ctl.expr.expression)
    /\ UNCHANGED <<pc, static, frames, environment, classes, instances,
                   counter_u128, kont, output, runtime_errors>>

visit_unary_expr ==
    /\ Running /\ ctl.m = "eval" /\ ctl.expr.t = "Unary"
    /\ kont' = Push([f |-> "visit_unary_expr", expr |-> ctl.expr])
    /\ ctl' = Eval(ctl.expr.right)
    /\ UNCHANGED <<pc, static, frames, environment, classes, instances,
                   counter_u128, output, runtime_errors>>

visit_unary_expr_right ==
    /\ Running /\ ctl.m = "value" /\ Top.f = "visit_unary_expr"
    /\ kont' = Tail(kont)
    /\ ctl' = IF Top.expr.operator = "!"
              THEN Value(OBoolean(~is_truthy(ctl.v)))
              ELSE LET r == check_number_operand(Top.expr.operator, ctl.v)
                   IN IF r.ok THEN Value(ONumber(0 - r.v)) ELSE Raise(r.e)
    /\ UNCHANGED <<pc, static, frames, environment, classes, instances,
                   counter_u128, output, runtime_errors>>

visit_set_expr ==
    /\ Running /\ ctl.m = "eval" /\ ctl.expr.t = "Set"
    /\ kont' = Push([f |-> "visit_set_expr", expr |-> ctl.expr, at |-> "object"])
    /\ ctl' = Eval(ctl.expr.object)
    /\ UNCHANGED <<pc, static, frames, environment, classes, instances,
                   counter_u128, output, runtime_errors>>

visit_set_expr_object ==
    /\ Running /\ ctl.m = "value" /\ Top.f = "visit_set_expr" /\ Top.at = "object"
    /\ IF ctl.v.k = "Instance"
       THEN /\ kont' = Replace([f |-> "visit_set_expr", expr |-> Top.expr,
                                at |-> "value", object |-> ctl.v])
            /\ ctl' = Eval(Top.expr.value)
       ELSE /\ kont' = Tail(kont)
            /\ ctl' = Raise(RuntimeError(Top.expr.name, "Only instances have fields."))
    /\ UNCHANGED <<pc, static, frames, environment, classes, instances,
                   counter_u128, output, runtime_errors>>

visit_set_expr_value ==
    /\ Running /\ ctl.m = "value" /\ Top.f = "visit_set_expr" /\ Top.at = "value"
    /\ instances' = LoxInstance_set(instances, Top.object.instance, Top.expr.name, ctl.v)
    /\ kont' = Tail(kont)
    /\ ctl' = ctl
    /\ UNCHANGED <<pc, static, frames, environment, classes, counter_u128,
                   output, runtime_errors>>

(* visit_super_expr with the fault of starting the lookup at the           *)
(* superclass of the class of the instance; SuperIsLexical must reject it  *)
visit_super_expr_dynamic ==
    /\ Running /\ ctl.m = "eval" /\ ctl.expr.t = "Super"
    /\ LET expr == ctl.expr
           distance == locals[expr.id]
           obj == get_at(frames, environment, distance - 1, "this")
           sup == Ok(OClass(classes[instances[obj.v.instance].class].superclass))
           method == find_method(classes, sup.v.class, expr.method)
           B == LoxFunction_bind(frames, counter_u128, method.v, obj.v.instance)
       IN IF expr.id \notin DOMAIN locals
          THEN /\ ctl' = Panic("Expect a 'super' local if visiting a 'super' expr.")
               /\ UNCHANGED <<frames, counter_u128>>
          ELSE IF distance = 0
          THEN /\ ctl' = Panic("attempt to subtract with overflow")
               /\ UNCHANGED <<frames, counter_u128>>
          ELSE IF ~obj.ok
          THEN ctl' = Panic(obj.e) /\ UNCHANGED <<frames, counter_u128>>
          ELSE IF obj.v.k # "Instance"
          THEN /\ ctl' = Panic("Expect 'super' to be a class object.")
               /\ UNCHANGED <<frames, counter_u128>>
          ELSE IF method.ok
          THEN /\ ctl' = Value(OCallable(B.function))
               /\ frames' = B.frames
               /\ counter_u128' = B.counter
          ELSE /\ ctl' = Raise(RuntimeError(expr.method,
                               "Undefined property '" \o expr.method \o "'."))
               /\ UNCHANGED <<frames, counter_u128>>
    /\ UNCHANGED <<pc, static, environment, classes, instances, kont, output,
                   runtime_errors>>

visit_super_expr ==
    /\ Running /\ ctl.m = "eval" /\ ctl.expr.t = "Super"
    /\ LET expr == ctl.expr
           distance == locals[expr.id]
           sup == get_at(frames, environment, distance, "super")
           obj == get_at(frames, environment, distance - 1, "this")
           method == find_method(classes, sup.v.class, expr.method)
           B == LoxFunction_bind(frames, counter_u128, method.v, obj.v.instance)
       IN IF expr.id \notin DOMAIN locals
          THEN /\ ctl' = Panic("Expect a 'super' local if visiting a 'super' expr.")
               /\ UNCHANGED <<frames, counter_u128>>
          ELSE IF ~sup.ok
          THEN ctl' = Panic(sup.e) /\ UNCHANGED <<frames, counter_u128>>
          ELSE IF sup.v.k # "Class"
          THEN /\ ctl' = Panic("Expect 'super' to be a class object.")
               /\ UNCHANGED <<frames, counter_u128>>
          ELSE IF distance = 0
          THEN /\ ctl' = Panic("attempt to subtract with overflow")
               /\ UNCHANGED <<frames, counter_u128>>
          ELSE IF ~obj.ok
          THEN ctl' = Panic(obj.e) /\ UNCHANGED <<frames, counter_u128>>
          ELSE IF obj.v.k # "Instance"
          THEN /\ ctl' = Panic("Expect 'super' to be a class object.")
               /\ UNCHANGED <<frames, counter_u128>>
          ELSE IF method.ok
          THEN /\ ctl' = Value(OCallable(B.function))
               /\ frames' = B.frames
               /\ counter_u128' = B.counter
          ELSE /\ ctl' = Raise(RuntimeError(expr.method,
                               "Undefined property '" \o expr.method \o "'."))
               /\ UNCHANGED <<frames, counter_u128>>
    /\ UNCHANGED <<pc, static, environment, classes, instances, kont, output,
                   runtime_errors>>

-----------------------------------------------------------------------------
(* Calls *)

visit_call_expr ==
    /\ Running /\ ctl.m = "eval" /\ ctl.expr.t = "Call"
    /\ kont' = Push([f |-> "visit_call_expr", expr |-> ctl.expr, at |-> "callee"])
    /\ ctl' = Eval(ctl.expr.callee)
    /\ UNCHANGED <<pc, static, frames, environment, classes, instances,
                   counter_u128, output, runtime_errors>>

(* the next argument to evaluate, or line 328 when there is none left *)
next_argument(fr) ==
    IF fr.rest = <<>>
    THEN /\ ctl' = AtCall
         /\ kont' = Replace(fr)
    ELSE /\ ctl' = Eval(Head(fr.rest))
         /\ kont' = Replace([fr EXCEPT !.rest = Tail(@)])

(* lines 310-320: a class is wrapped as LoxCallable::Class *)
visit_call_expr_callee ==
    /\ Running /\ ctl.m = "value" /\ Top.f = "visit_call_expr" /\ Top.at = "callee"
    /\ next_argument([f |-> "visit_call_expr", expr |-> Top.expr, at |-> "arguments",
                      callee |-> IF ctl.v.k = "Class"
                                 THEN OCallable(CallableClass(ctl.v.class))
                                 ELSE ctl.v,
                      arguments |-> <<>>, rest |-> Top.expr.arguments])
    /\ UNCHANGED <<pc, static, frames, environment, classes, instances,
                   counter_u128, output, runtime_errors>>

visit_call_expr_argument ==
    /\ Running /\ ctl.m = "value" /\ Top.f = "visit_call_expr" /\ Top.at = "arguments"
    /\ next_argument([Top EXCEPT !.arguments = Append(@, ctl.v)])
    /\ UNCHANGED <<pc, static, frames, environment, classes, instances,
                   counter_u128, output, runtime_errors>>

visit_call_expr_not_callable ==
    /\ Running /\ ctl.m = "call" /\ Top.callee.k # "Callable"
    /\ ctl' = Raise(RuntimeError(Top.expr.paren, "Can only call functions and classes."))
    /\ kont' = Tail(kont)
    /\ UNCHANGED <<pc, static, frames, environment, classes, instances,
                   counter_u128, output, runtime_errors>>

arity_matches(fr) ==
    /\ fr.callee.k = "Callable"
    /\ Len(fr.arguments) = LoxCallable_arity(classes, fr.callee.callable)

(* visit_call_expr_arity with the two counts of the message exchanged;     *)
(* ArityIsChecked must reject it                                           *)
visit_call_expr_arity_swapped ==
    /\ Running /\ ctl.m = "call" /\ Top.callee.k = "Callable"
    /\ Len(Top.arguments) # LoxCallable_arity(classes, Top.callee.callable)
    /\ ctl' = Raise(RuntimeError(Top.expr.paren,
                 "Expected " \o ToString(Len(Top.arguments))
                 \o " arguments but got "
                 \o ToString(LoxCallable_arity(classes, Top.callee.callable)) \o "."))
    /\ kont' = Tail(kont)
    /\ UNCHANGED <<pc, static, frames, environment, classes, instances,
                   counter_u128, output, runtime_errors>>

visit_call_expr_arity ==
    /\ Running /\ ctl.m = "call" /\ Top.callee.k = "Callable"
    /\ Len(Top.arguments) # LoxCallable_arity(classes, Top.callee.callable)
    /\ ctl' = Raise(RuntimeError(Top.expr.paren,
                 "Expected " \o ToString(LoxCallable_arity(classes, Top.callee.callable))
                 \o " arguments but got " \o ToString(Len(Top.arguments)) \o "."))
    /\ kont' = Tail(kont)
    /\ UNCHANGED <<pc, static, frames, environment, classes, instances,
                   counter_u128, output, runtime_errors>>

(* what SystemTime::now() can yield *)
ClockTimes == {0, 1}

Clock_call ==
    /\ Running /\ ctl.m = "call" /\ arity_matches(Top)
    /\ Top.callee.callable.kind = "Clock"
    /\ \E now \in ClockTimes : ctl' = Value(ONumber(now))
    /\ kont' = Tail(kont)
    /\ UNCHANGED <<pc, static, frames, environment, classes, instances,
                   counter_u128, output, runtime_errors>>

(* LoxFunction::call, lines 49-51: zip(params, arguments) *)
RECURSIVE define_params(_, _, _, _)
define_params(F, env, params, arguments) ==
    IF params = <<>> \/ arguments = <<>> THEN F
    ELSE define_params(Environment_define(F, env, Head(params), Head(arguments)),
                       env, Tail(params), Tail(arguments))

(* LoxFunction_call_begin with the fault of making the caller's frame the  *)
(* parent of the call's frame; ClosureIsCapturedFrame must reject it       *)
LoxFunction_call_begin_dynamic(F, function, arguments, K) ==
    LET env == Len(F) + 1
    IN /\ frames' = define_params(Append(F, Environment_new(environment)), env,
                                  function.declaration.params, arguments)
       /\ execute_block_begin(function.declaration.body, env,
              <<[f |-> "LoxFunction_call", function |-> function]>> \o K)

(* LoxFunction::call up to the call of execute_block: the new frame with   *)
(* the parameters, on the heap F and the stack K                           *)
LoxFunction_call_begin(F, function, arguments, K) ==
    LET env == Len(F) + 1
    IN /\ frames' = define_params(Append(F, Environment_new(function.closure)), env,
                                  function.declaration.params, arguments)
       /\ execute_block_begin(function.declaration.body, env,
              <<[f |-> "LoxFunction_call", function |-> function]>> \o K)

LoxFunction_call ==
    /\ Running /\ ctl.m = "call" /\ arity_matches(Top)
    /\ Top.callee.callable.kind = "Function"
    /\ LoxFunction_call_begin(frames, Top.callee.callable, Top.arguments, Tail(kont))
    /\ UNCHANGED <<pc, static, classes, instances, counter_u128, output,
                   runtime_errors>>

(* initializer_this with the fault of yielding nil, as a plain function    *)
(* does; InitializerYieldsThis must reject it                              *)
initializer_this_nil(function) == Value(ONil)

(* the value an initializer yields: self.closure.get_at(0, "this") *)
initializer_this(function) ==
    LET r == get_at(frames, function.closure, 0, "this")
    IN IF r.ok THEN Value(r.v) ELSE Panic(r.e)

(* LoxFunction::call, lines 68-72: execute_block returned Ok(()) *)
LoxFunction_call_end ==
    /\ Running /\ ctl.m = "ok" /\ Top.f = "LoxFunction_call"
    /\ ctl' = IF Top.function.is_initializer
              THEN initializer_this(Top.function)
              ELSE Value(ONil)
    /\ kont' = Tail(kont)
    /\ UNCHANGED <<pc, static, frames, environment, classes, instances,
                   counter_u128, output, runtime_errors>>

(* LoxFunction_call_err with the fault of not catching the Return signal;  *)
(* ReturnEndsInnermostCall must reject it                                  *)
LoxFunction_call_err_forwards ==
    /\ Running /\ ctl.m = "err" /\ Top.f = "LoxFunction_call"
    /\ kont' = Tail(kont)
    /\ UNCHANGED <<pc, static, frames, environment, classes, instances,
                   counter_u128, ctl, output, runtime_errors>>

(* LoxFunction::call, lines 57-66: execute_block returned Err(err) *)
LoxFunction_call_err ==
    /\ Running /\ ctl.m = "err" /\ Top.f = "LoxFunction_call"
    /\ ctl' = IF ctl.e.kind = "Return"
              THEN IF Top.function.is_initializer
                   THEN initializer_this(Top.function)
                   ELSE Value(ctl.e.value)
              ELSE ctl
    /\ kont' = Tail(kont)
    /\ UNCHANGED <<pc, static, frames, environment, classes, instances,
                   counter_u128, output, runtime_errors>>

LoxClass_call ==
    /\ Running /\ ctl.m = "call" /\ arity_matches(Top)
    /\ Top.callee.callable.kind = "Class"
    /\ LET class == Top.callee.callable.class
           instance == Len(instances) + 1
           initializer == find_method(classes, class, "init")
           B == LoxFunction_bind(frames, counter_u128, initializer.v, instance)
       IN /\ instances' = Append(instances, LoxInstance_new(class))
          /\ IF initializer.ok
             THEN /\ LoxFunction_call_begin(B.frames, B.function, Top.arguments,
                         <<[f |-> "LoxClass_call", instance |-> instance]>>
                         \o Tail(kont))
                  /\ counter_u128' = B.counter
             ELSE /\ ctl' = Value(OInstance(instance))
                  /\ kont' = Tail(kont)
                  /\ UNCHANGED <<frames, environment, counter_u128>>
    /\ UNCHANGED <<pc, static, classes, output, runtime_errors>>

(* LoxClass::call, line 49: the initializer returned Ok *)
LoxClass_call_end ==
    /\ Running /\ ctl.m = "value" /\ Top.f = "LoxClass_call"
    /\ ctl' = Value(OInstance(Top.instance))
    /\ kont' = Tail(kont)
    /\ UNCHANGED <<pc, static, frames, environment, classes, instances,
                   counter_u128, output, runtime_errors>>

-----------------------------------------------------------------------------
(* Class declarations *)

(* visit_class_stmt, lines 144-152: the method table, later methods of the *)
(* same name replacing earlier ones; each LoxFunction::new draws an id     *)
RECURSIVE class_methods(_, _, _, _)
class_methods(methods, env, counter, acc) ==
    IF methods = <<>> THEN [methods |-> acc, counter |-> counter]
    ELSE LET method == Head(methods)
         IN class_methods(Tail(methods), env, counter + 1,
                (method.name :> LoxFunction_new(method, env, method.name = "init",
                                                counter + 1)) @@ acc)

(* class_declare with the fault of leaving the frame that holds "super"    *)
(* current; CurrentFrameIsGlobals must reject it                           *)
class_declare_keeps_super_frame(stmt, superclass) ==
    LET F1 == Environment_define(frames, environment, stmt.name, ONil)
        has_super == stmt.superclass.t # "None"
        env1 == IF has_super THEN Len(F1) + 1 ELSE environment
        F2 == IF has_super
              THEN Environment_define(Append(F1, Environment_new(environment)),
                                      env1, "super", OClass(superclass))
              ELSE F1
        M == class_methods(stmt.methods, env1, counter_u128, <<>>)
        class == Len(classes) + 1
        r == Environment_assign(F2, env1, stmt.name, OClass(class))
    IN /\ classes' = Append(classes, [name |-> stmt.name, superclass |-> superclass,
                                      methods |-> M.methods, id |-> M.counter + 1])
       /\ counter_u128' = M.counter + 1
       /\ environment' = env1
       /\ IF r.ok THEN frames' = r.v /\ ctl' = Unit
          ELSE frames' = F2 /\ ctl' = Raise(r.e)

(* visit_class_stmt, lines 130-164, superclass = 0 for None *)
class_declare(stmt, superclass) ==
    LET F1 == Environment_define(frames, environment, stmt.name, ONil)
        has_super == stmt.superclass.t # "None"
        env1 == IF has_super THEN Len(F1) + 1 ELSE environment
        F2 == IF has_super
              THEN Environment_define(Append(F1, Environment_new(environment)),
                                      env1, "super", OClass(superclass))
              ELSE F1
        M == class_methods(stmt.methods, env1, counter_u128, <<>>)
        class == Len(classes) + 1
        env2 == IF superclass # 0 THEN F2[env1].enclosing ELSE env1
        r == Environment_assign(F2, env2, stmt.name, OClass(class))
    IN /\ classes' = Append(classes, [name |-> stmt.name, superclass |-> superclass,
                                      methods |-> M.methods, id |-> M.counter + 1])
       /\ counter_u128' = M.counter + 1
       /\ environment' = env2
       /\ IF r.ok THEN frames' = r.v /\ ctl' = Unit
          ELSE frames' = F2 /\ ctl' = Raise(r.e)

visit_class_stmt ==
    /\ Running /\ ctl.m = "exec" /\ ctl.stmt.t = "Class"
    /\ IF ctl.stmt.superclass.t # "None"
       THEN /\ kont' = Push([f |-> "visit_class_stmt", stmt |-> ctl.stmt])
            /\ ctl' = Eval(ctl.stmt.superclass)
            /\ UNCHANGED <<frames, environment, classes, counter_u128>>
       ELSE /\ class_declare(ctl.stmt, 0)
            /\ kont' = kont
    /\ UNCHANGED <<pc, static, instances, output, runtime_errors>>

(* visit_class_stmt, lines 117-125: the superclass has been evaluated *)
visit_class_stmt_superclass ==
    /\ Running /\ ctl.m = "value" /\ Top.f = "visit_class_stmt"
    /\ kont' = Tail(kont)
    /\ IF ctl.v.k = "Class"
       THEN class_declare(Top.stmt, ctl.v.class)
       ELSE /\ ctl' = Raise(RuntimeError(Top.stmt.superclass.name,
                                         "Superclass must be a class."))
            /\ UNCHANGED <<frames, environment, classes, counter_u128>>
    /\ UNCHANGED <<pc, static, instances, output, runtime_errors>>

-----------------------------------------------------------------------------
(* The programs given to the pipeline: the programs of the test suite      *)
(* (src/src/interpreter.rs:612-865, src/src/resolver.rs:403-410), written  *)
(* as the statement lists the parser builds for them, and families that    *)
(* vary the shape of a block, the kind of callee and the argument count.   *)
(* Every Variable, Assign, This and Super node has its own id.             *)

Str(s) == ExprLiteral(OString(s))
Num(n) == ExprLiteral(ONumber(n))
Bool(b) == ExprLiteral(OBoolean(b))

(* test lexical_scope *)
lexical_scope ==
    << StmtVar("a", Num(3)), StmtPrint(ExprVariable("a", 1)),
       StmtBlock(<< StmtVar("a", Num(5)), StmtPrint(ExprVariable("a", 2)),
                    StmtBlock(<< StmtVar("a", Num(7)), StmtPrint(ExprVariable("a", 3)) >>),
                    StmtPrint(ExprVariable("a", 4)) >>),
       StmtPrint(ExprVariable("a", 5)),
       StmtBlock(<< StmtExpression(ExprAssign("a", Num(1), 6)),
                    StmtPrint(ExprVariable("a", 7)) >>),
       StmtPrint(ExprVariable("a", 8)) >>

(* test and_or *)
and_or ==
    << StmtVar("a", ExprLogical(Str("a"), "or", Str("x"))), StmtPrint(ExprVariable("a", 1)),
       StmtVar("b", ExprLogical(ExprLiteral(ONil), "or", Str("b"))),
       StmtPrint(ExprVariable("b", 2)),
       StmtVar("c", ExprLogical(Bool(FALSE), "and", Num(3))),
       StmtPrint(ExprVariable("c", 3)),
       StmtVar("d", ExprLogical(Bool(TRUE), "and", Str("d"))),
       StmtPrint(ExprVariable("d", 4)) >>

(* how many values the loop of the fib program prints *)
FibRuns == 3

(* test fib; the for loop in the form Parser::for_statement gives it *)
fib ==
    << StmtFunction("fib", <<"n">>,
          << StmtIf(ExprBinary(ExprVariable("n", 1), "<=", Num(1)),
                    StmtReturn(ExprVariable("n", 2)), None),
             StmtReturn(ExprBinary(
                 ExprCall(ExprVariable("fib", 3),
                          <<ExprBinary(ExprVariable("n", 4), "-", Num(2))>>),
                 "+",
                 ExprCall(ExprVariable("fib", 5),
                          <<ExprBinary(ExprVariable("n", 6), "-", Num(1))>>))) >>),
       StmtBlock(<< StmtVar("i", Num(0)),
                    StmtWhile(ExprBinary(ExprVariable("i", 7), "<", Num(FibRuns)),
                        StmtBlock(<< StmtBlock(<< StmtPrint(
                                         ExprCall(ExprVariable("fib", 8),
                                                  <<ExprVariable("i", 9)>>)) >>),
                                     StmtExpression(ExprAssign("i",
                                         ExprBinary(ExprVariable("i", 10), "+", Num(1)),
                                         11)) >>)) >>) >>

(* test counter_closure *)
counter_closure ==
    << StmtFunction("make_counter", <<>>,
          << StmtVar("i", Num(0)),
             StmtFunction("count", <<>>,
                << StmtExpression(ExprAssign("i",
                       ExprBinary(ExprVariable("i", 1), "+", Num(1)), 2)),
                   StmtPrint(ExprVariable("i", 3)) >>),
             StmtReturn(ExprVariable("count", 4)) >>),
       StmtVar("counter", ExprCall(ExprVariable("make_counter", 5), <<>>)),
       StmtExpression(ExprCall(ExprVariable("counter", 6), <<>>)),
       StmtExpression(ExprCall(ExprVariable("counter", 7), <<>>)),
       StmtExpression(ExprCall(ExprVariable("counter", 8), <<>>)) >>

(* test undefined_variable_in_fun *)
undefined_variable_in_fun ==
    << StmtFunction("foo", <<>>, << StmtExpression(ExprAssign("a", Num(1), 1)) >>),
       StmtExpression(ExprCall(ExprVariable("foo", 2), <<>>)) >>

(* test static_scope *)
static_scope ==
    << StmtVar("a", Str("global")),
       StmtBlock(<< StmtFunction("show_a", <<>>, << StmtPrint(ExprVariable("a", 1)) >>),
                    StmtExpression(ExprCall(ExprVariable("show_a", 2), <<>>)),
                    StmtVar("a", Str("block")),
                    StmtExpression(ExprCall(ExprVariable("show_a", 3), <<>>)) >>) >>

(* test call_superclass_method *)
call_superclass_method ==
    << StmtClass("A", None, << StmtFunction("say", <<>>, << StmtPrint(Str("a")) >>) >>),
       StmtClass("B", ExprVariable("A", 1),
          << StmtFunction("say", <<>>,
                << StmtExpression(ExprCall(ExprSuper("say", 2), <<>>)),
                   StmtPrint(Str("b")) >>) >>),
       StmtExpression(ExprCall(ExprGet(ExprCall(ExprVariable("B", 3), <<>>), "say"),
                               <<>>)) >>

(* test this_outside_class *)
this_outside_class == << StmtPrint(ExprThis(1)) >>

(* return inside nested blocks, an if and a while; a caller that goes on:  *)
(*   fun f(x) { while (true) { { if (x) return "early"; } return; }        *)
(*              print "unreachable"; }                                     *)
(*   fun g() { print f(true); print "g continues"; return f(false);        *)
(*             print "unreachable"; }                                      *)
(*   print g(); print "after";                                             *)
nested_return ==
    << StmtFunction("f", <<"x">>,
          << StmtWhile(Bool(TRUE),
                StmtBlock(<< StmtBlock(<< StmtIf(ExprVariable("x", 1),
                                                 StmtReturn(Str("early")), None) >>),
                             StmtReturn(None) >>)),
             StmtPrint(Str("unreachable")) >>),
       StmtFunction("g", <<>>,
          << StmtPrint(ExprCall(ExprVariable("f", 2), <<Bool(TRUE)>>)),
             StmtPrint(Str("g continues")),
             StmtReturn(ExprCall(ExprVariable("f", 3), <<Bool(FALSE)>>)),
             StmtPrint(Str("unreachable")) >>),
       StmtPrint(ExprCall(ExprVariable("g", 4), <<>>)),
       StmtPrint(Str("after")) >>

(* a runtime error two blocks deep, after a block that ended normally and  *)
(* a call that ended with a return from inside a block:                    *)
(*   fun f() { { return 1; } }                                             *)
(*   { print "in"; } print f();                                            *)
(*   { var x = 1; { print y; } print "unreachable"; } print "unreachable"; *)
block_exits ==
    << StmtFunction("f", <<>>, << StmtBlock(<< StmtReturn(Num(1)) >>) >>),
       StmtBlock(<< StmtPrint(Str("in")) >>),
       StmtPrint(ExprCall(ExprVariable("f", 1), <<>>)),
       StmtBlock(<< StmtVar("x", Num(1)),
                    StmtBlock(<< StmtPrint(ExprVariable("y", 2)) >>),
                    StmtPrint(Str("unreachable")) >>),
       StmtPrint(Str("unreachable")) >>

(* `return 1;` at top level *)
top_level_return == << StmtPrint(Str("before")), StmtReturn(Num(1)) >>

(* an initializer that ends by a bare return or by reaching its end, and   *)
(* is called through the class and through the instance:                   *)
(*   class Foo { init(x) { this.x = x; if (x) return; this.y = "end"; } }  *)
(*   var foo = Foo(true); print foo.x;                                     *)
(*   var same = foo.init(false); print same.x; print foo.x; print foo.y;   *)
initializer ==
    << StmtClass("Foo", None,
          << StmtFunction("init", <<"x">>,
                << StmtExpression(ExprSet(ExprThis(1), "x", ExprVariable("x", 2))),
                   StmtIf(ExprVariable("x", 3), StmtReturn(None), None),
                   StmtExpression(ExprSet(ExprThis(4), "y", Str("end"))) >>) >>),
       StmtVar("foo", ExprCall(ExprVariable("Foo", 5), <<Bool(TRUE)>>)),
       StmtPrint(ExprGet(ExprVariable("foo", 6), "x")),
       StmtVar("same", ExprCall(ExprGet(ExprVariable("foo", 7), "init"),
                                <<Bool(FALSE)>>)),
       StmtPrint(ExprGet(ExprVariable("same", 8), "x")),
       StmtPrint(ExprGet(ExprVariable("foo", 9), "x")),
       StmtPrint(ExprGet(ExprVariable("foo", 10), "y")) >>

(* an inherited initializer, a class without one, and a wrong count:       *)
(*   class A { init(x) { this.x = x; print "init"; } }                     *)
(*   class B < A {}  class C {}                                            *)
(*   print B(7).x; print C(); print B(8) == B(8); B();                     *)
inherited_init ==
    << StmtClass("A", None,
          << StmtFunction("init", <<"x">>,
                << StmtExpression(ExprSet(ExprThis(1), "x", ExprVariable("x", 2))),
                   StmtPrint(Str("init")) >>) >>),
       StmtClass("B", ExprVariable("A", 3), <<>>),
       StmtClass("C", None, <<>>),
       StmtPrint(ExprGet(ExprCall(ExprVariable("B", 4), <<Num(7)>>), "x")),
       StmtPrint(ExprCall(ExprVariable("C", 5), <<>>)),
       StmtPrint(ExprBinary(ExprCall(ExprVariable("B", 6), <<Num(8)>>), "==",
                            ExprCall(ExprVariable("B", 7), <<Num(8)>>))),
       StmtExpression(ExprCall(ExprVariable("B", 8), <<>>)) >>

(* calling a string; setting a field on a number is never reached *)
not_callable ==
    << StmtExpression(ExprCall(Str("str"), <<>>)),
       StmtExpression(ExprSet(Num(1), "x", Num(2))) >>

(* fields, own methods, inherited methods and bound methods:               *)
(*   class A { m() { print "A.m"; } n() { print "A.n"; }                   *)
(*             who() { print this.tag; } }                                 *)
(*   class B < A { m() { print "B.m"; } }                                  *)
(*   fun f() { print "field"; }                                            *)
(*   var b = B(); b.tag = "b"; b.m(); b.n(); b.who();                      *)
(*   var other = B(); other.tag = "other";                                 *)
(*   var w = b.who; other.w = w; other.w();                                *)
(*   b.n = f; b.n(); other.n(); print b.tag;                               *)
property_lookup ==
    << StmtClass("A", None,
          << StmtFunction("m", <<>>, << StmtPrint(Str("A.m")) >>),
             StmtFunction("n", <<>>, << StmtPrint(Str("A.n")) >>),
             StmtFunction("who", <<>>, << StmtPrint(ExprGet(ExprThis(1), "tag")) >>) >>),
       StmtClass("B", ExprVariable("A", 2),
          << StmtFunction("m", <<>>, << StmtPrint(Str("B.m")) >>) >>),
       StmtFunction("f", <<>>, << StmtPrint(Str("field")) >>),
       StmtVar("b", ExprCall(ExprVariable("B", 3), <<>>)),
       StmtExpression(ExprSet(ExprVariable("b", 4), "tag", Str("b"))),
       StmtExpression(ExprCall(ExprGet(ExprVariable("b", 5), "m"), <<>>)),
       StmtExpression(ExprCall(ExprGet(ExprVariable("b", 6), "n"), <<>>)),
       StmtExpression(ExprCall(ExprGet(ExprVariable("b", 7), "who"), <<>>)),
       StmtVar("other", ExprCall(ExprVariable("B", 8), <<>>)),
       StmtExpression(ExprSet(ExprVariable("other", 9), "tag", Str("other"))),
       StmtVar("w", ExprGet(ExprVariable("b", 10), "who")),
       StmtExpression(ExprSet(ExprVariable("other", 11), "w", ExprVariable("w", 12))),
       StmtExpression(ExprCall(ExprGet(ExprVariable("other", 13), "w"), <<>>)),
       StmtExpression(ExprSet(ExprVariable("b", 14), "n", ExprVariable("f", 15))),
       StmtExpression(ExprCall(ExprGet(ExprVariable("b", 16), "n"), <<>>)),
       StmtExpression(ExprCall(ExprGet(ExprVariable("other", 17), "n"), <<>>)),
       StmtPrint(ExprGet(ExprVariable("b", 18), "tag")) >>

(* a property that the instance and its class chain do not have:           *)
(*   class A {}  class B < A {}  var b = B(); b.x = 1; print b.x;          *)
(*   print b.missing; print "unreachable";                                 *)
undefined_property ==
    << StmtClass("A", None, <<>>),
       StmtClass("B", ExprVariable("A", 1), <<>>),
       StmtVar("b", ExprCall(ExprVariable("B", 2), <<>>)),
       StmtExpression(ExprSet(ExprVariable("b", 3), "x", Num(1))),
       StmtPrint(ExprGet(ExprVariable("b", 4), "x")),
       StmtPrint(ExprGet(ExprVariable("b", 5), "missing")),
       StmtPrint(Str("unreachable")) >>

(* a super method that no class of the superclass chain has:               *)
(*   class A {}  class B < A { missing() { print "B"; }                    *)
(*                             m() { print "m"; super.missing(); } }       *)
(*   B().m(); print "unreachable";                                         *)
undefined_super ==
    << StmtClass("A", None, <<>>),
       StmtClass("B", ExprVariable("A", 1),
          << StmtFunction("missing", <<>>, << StmtPrint(Str("B")) >>),
             StmtFunction("m", <<>>,
                << StmtPrint(Str("m")),
                   StmtExpression(ExprCall(ExprSuper("missing", 2), <<>>)) >>) >>),
       StmtExpression(ExprCall(ExprGet(ExprCall(ExprVariable("B", 3), <<>>), "m"),
                               <<>>)),
       StmtPrint(Str("unreachable")) >>

(* super in the middle of a chain of three classes:                        *)
(*   class A { m() { print "A.m"; print this.tag; } }                      *)
(*   class B < A { m() { print "B.m"; } test() { super.m(); } }            *)
(*   class C < B { m() { print "C.m"; } }                                  *)
(*   var c = C(); c.tag = "c"; c.test(); c.m();                            *)
super_chain ==
    << StmtClass("A", None,
          << StmtFunction("m", <<>>,
                << StmtPrint(Str("A.m")),
                   StmtPrint(ExprGet(ExprThis(1), "tag")) >>) >>),
       StmtClass("B", ExprVariable("A", 2),
          << StmtFunction("m", <<>>, << StmtPrint(Str("B.m")) >>),
             StmtFunction("test", <<>>,
                << StmtExpression(ExprCall(ExprSuper("m", 3), <<>>)) >>) >>),
       StmtClass("C", ExprVariable("B", 4),
          << StmtFunction("m", <<>>, << StmtPrint(Str("C.m")) >>) >>),
       StmtVar("c", ExprCall(ExprVariable("C", 5), <<>>)),
       StmtExpression(ExprSet(ExprVariable("c", 6), "tag", Str("c"))),
       StmtExpression(ExprCall(ExprGet(ExprVariable("c", 7), "test"), <<>>)),
       StmtExpression(ExprCall(ExprGet(ExprVariable("c", 8), "m"), <<>>)) >>

(* instances compared with == and !=:                                      *)
(*   class A {}  var a = A(); var b = A(); var c = a;                      *)
(*   print a == c; print a == b; a.x = 1; b.x = 1; print a == b;           *)
(*   b.x = 2; print a == b; print a != c; print a != b;                    *)
instance_equality ==
    << StmtClass("A", None, <<>>),
       StmtVar("a", ExprCall(ExprVariable("A", 1), <<>>)),
       StmtVar("b", ExprCall(ExprVariable("A", 2), <<>>)),
       StmtVar("c", ExprVariable("a", 3)),
       StmtPrint(ExprBinary(ExprVariable("a", 4), "==", ExprVariable("c", 5))),
       StmtPrint(ExprBinary(ExprVariable("a", 6), "==", ExprVariable("b", 7))),
       StmtExpression(ExprSet(ExprVariable("a", 8), "x", Num(1))),
       StmtExpression(ExprSet(ExprVariable("b", 9), "x", Num(1))),
       StmtPrint(ExprBinary(ExprVariable("a", 10), "==", ExprVariable("b", 11))),
       StmtExpression(ExprSet(ExprVariable("b", 12), "x", Num(2))),
       StmtPrint(ExprBinary(ExprVariable("a", 13), "==", ExprVariable("b", 14))),
       StmtPrint(ExprBinary(ExprVariable("a", 15), "!=", ExprVariable("c", 16))),
       StmtPrint(ExprBinary(ExprVariable("a", 17), "!=", ExprVariable("b", 18))) >>

(* an instance whose field map refers back to the instance:                *)
(*   class A {}  var a = A(); print a == 1; print a == "a"; print a != nil;*)
(*   print A == a; a.self = a; print a == a; print "after";                *)
cyclic_equality ==
    << StmtClass("A", None, <<>>),
       StmtVar("a", ExprCall(ExprVariable("A", 1), <<>>)),
       StmtPrint(ExprBinary(ExprVariable("a", 2), "==", Num(1))),
       StmtPrint(ExprBinary(ExprVariable("a", 3), "==", Str("a"))),
       StmtPrint(ExprBinary(ExprVariable("a", 4), "!=", ExprLiteral(ONil))),
       StmtPrint(ExprBinary(ExprVariable("A", 5), "==", ExprVariable("a", 6))),
       StmtExpression(ExprSet(ExprVariable("a", 7), "self", ExprVariable("a", 8))),
       StmtPrint(ExprBinary(ExprVariable("a", 9), "==", ExprVariable("a", 10))),
       StmtPrint(Str("after")) >>

(* operands with a visible side effect:                                    *)
(*   fun side(v) { print v; return v; }                                    *)
(*   print side(1) or side(2);        print side(nil) or side(2);          *)
(*   print side(false) and side(3);   print side(true) and side(nil);      *)
(*   print side(0) and side("");                                           *)
short_circuit ==
    << StmtFunction("side", <<"v">>,
          << StmtPrint(ExprVariable("v", 1)), StmtReturn(ExprVariable("v", 2)) >>),
       StmtPrint(ExprLogical(ExprCall(ExprVariable("side", 3), <<Num(1)>>), "or",
                             ExprCall(ExprVariable("side", 4), <<Num(2)>>))),
       StmtPrint(ExprLogical(ExprCall(ExprVariable("side", 5), <<ExprLiteral(ONil)>>), "or",
                             ExprCall(ExprVariable("side", 6), <<Num(2)>>))),
       StmtPrint(ExprLogical(ExprCall(ExprVariable("side", 7), <<Bool(FALSE)>>), "and",
                             ExprCall(ExprVariable("side", 8), <<Num(3)>>))),
       StmtPrint(ExprLogical(ExprCall(ExprVariable("side", 9), <<Bool(TRUE)>>), "and",
                             ExprCall(ExprVariable("side", 10), <<ExprLiteral(ONil)>>))),
       StmtPrint(ExprLogical(ExprCall(ExprVariable("side", 11), <<Num(0)>>), "and",
                             ExprCall(ExprVariable("side", 12), <<Str("")>>))) >>

Curated ==
    << [name |-> "lexical_scope", statements |-> lexical_scope],
       [name |-> "and_or", statements |-> and_or],
       [name |-> "fib", statements |-> fib],
       [name |-> "counter_closure", statements |-> counter_closure],
       [name |-> "undefined_variable_in_fun", statements |-> undefined_variable_in_fun],
       [name |-> "static_scope", statements |-> static_scope],
       [name |-> "call_superclass_method", statements |-> call_superclass_method],
       [name |-> "this_outside_class", statements |-> this_outside_class],
       [name |-> "nested_return", statements |-> nested_return],
       [name |-> "block_exits", statements |-> block_exits],
       [name |-> "top_level_return", statements |-> top_level_return],
       [name |-> "initializer", statements |-> initializer],
       [name |-> "inherited_init", statements |-> inherited_init],
       [name |-> "not_callable", statements |-> not_callable],
       [name |-> "property_lookup", statements |-> property_lookup],
       [name |-> "undefined_property", statements |-> undefined_property],
       [name |-> "undefined_super", statements |-> undefined_super],
       [name |-> "super_chain", statements |-> super_chain],
       [name |-> "instance_equality", statements |-> instance_equality],
       [name |-> "cyclic_equality", statements |-> cyclic_equality],
       [name |-> "short_circuit", statements |-> short_circuit] >>

(* The block family:  var a = "global"; { S1 ... Sn } print a;             *)
(* with every Si one of the statements of Pool.                            *)
GenLen == 3

Pool == {"VarA", "AssignA", "PrintA", "FunShow", "CallShow", "VarSelf", "NestedAssign"}

(* the ids of the nodes of the statement at position p *)
GenId(p, j) == 100 + 10 * p + j

PoolStmt(kind, p) ==
    CASE kind = "VarA" -> StmtVar("a", Str("block"))
      [] kind = "AssignA" -> StmtExpression(ExprAssign("a", Str("assigned"), GenId(p, 1)))
      [] kind = "PrintA" -> StmtPrint(ExprVariable("a", GenId(p, 1)))
      [] kind = "FunShow" ->
            StmtFunction("show", <<>>, << StmtPrint(ExprVariable("a", GenId(p, 1))) >>)
      [] kind = "CallShow" ->
            StmtExpression(ExprCall(ExprVariable("show", GenId(p, 1)), <<>>))
      [] kind = "VarSelf" -> StmtVar("a", ExprAssign("a", Str("self"), GenId(p, 1)))
      [] kind = "NestedAssign" ->
            StmtBlock(<< StmtExpression(ExprAssign("a", Str("inner"), GenId(p, 1))) >>)

Gen(k) ==
    << StmtVar("a", Str("global")),
       StmtBlock([p \in 1..GenLen |-> PoolStmt(k[p], p)]),
       StmtPrint(ExprVariable("a", 100)) >>

(* The call family: a callee of arity 1 (a function, a class with an       *)
(* initializer) or of arity 0 (clock, a class without initializer), called *)
(* with m arguments.                                                       *)
MaxArgs == 2

Callees == {"function", "class", "clock", "plain_class"}

Arity(callee, m) ==
    << StmtFunction("function", <<"a">>, << StmtPrint(Str("body")) >>),
       StmtClass("class", None,
          << StmtFunction("init", <<"a">>, << StmtPrint(Str("body")) >>) >>),
       StmtClass("plain_class", None, <<>>),
       StmtPrint(ExprCall(ExprVariable(callee, 1), [i \in 1..m |-> Num(i)])),
       StmtPrint(Str("after")) >>

(* The redeclaration family: a declaration of `a` and a declaration of     *)
(* `second`, both in the scope named by place, or the second one in a      *)
(* block of its own.                                                       *)
Places == {"top", "block", "params", "body", "inner_block"}

Seconds == {"a", "b"}

Redeclare(place, second) ==
    CASE place = "top" ->          \* var a; var second;
           << StmtVar("a", None), StmtVar(second, None) >>
      [] place = "block" ->        \* { var a; var second; }
           << StmtBlock(<< StmtVar("a", None), StmtVar(second, None) >>) >>
      [] place = "params" ->       \* fun f(a, second) {}
           << StmtFunction("f", <<"a", second>>, <<>>) >>
      [] place = "body" ->         \* fun f(a) { var second; }
           << StmtFunction("f", <<"a">>, << StmtVar(second, None) >>) >>
      [] place = "inner_block" ->  \* { var a; { var second; } }
           << StmtBlock(<< StmtVar("a", None),
                           StmtBlock(<< StmtVar(second, None) >>) >>) >>

(* The initializer family:  var a = <init>; print a;  at the top level, in *)
(* a block, in a block under a global or a local `a`, or in a function     *)
(* body; <init> reads a, reads a inside a sum, reads b or reads nothing.   *)
Sites == {"top", "block", "shadow_global", "shadow_local", "function"}

Inits == {"read", "nested", "other", "literal"}

initializer_of(init) ==
    CASE init = "read" -> ExprVariable("a", 1)
      [] init = "nested" -> ExprBinary(ExprVariable("a", 1), "+", Num(1))
      [] init = "other" -> ExprVariable("b", 1)
      [] init = "literal" -> Num(1)

OwnInitializer(site, init) ==
    LET decl == << StmtVar("a", initializer_of(init)),
                   StmtPrint(ExprVariable("a", 2)) >>
    IN CASE site = "top" -> decl
         [] site = "block" -> << StmtBlock(decl) >>
         [] site = "shadow_global" -> << StmtVar("a", Num(0)), StmtBlock(decl) >>
         [] site = "shadow_local" ->
               << StmtBlock(<< StmtVar("a", Num(0)), StmtBlock(decl) >>) >>
         [] site = "function" -> << StmtFunction("f", <<"b">>, decl) >>

(* The return family: one  return;  or  return 1;  (the statement under    *)
(* test) placed in one of the contexts below.                              *)
ReturnContexts ==
    {"top", "function", "method", "init", "nested_in_init", "after_nested_in_init",
     "after_function", "block_in_function", "init_in_function",
     "after_class_in_function", "method_after_init"}

ReturnValues == {"bare", "value"}

ReturnIn(context, value) ==
    LET ret == StmtReturn(IF value = "value" THEN Num(1) ELSE None)
        g == StmtFunction("g", <<>>, << StmtReturn(Num(2)) >>)
    IN CASE context = "top" ->                \* return v;
              << ret >>
         [] context = "function" ->           \* fun f() { return v; }
              << StmtFunction("f", <<>>, << ret >>) >>
         [] context = "method" ->             \* class A { m() { return v; } }
              << StmtClass("A", None, << StmtFunction("m", <<>>, << ret >>) >>) >>
         [] context = "init" ->               \* class A { init() { return v; } }
              << StmtClass("A", None, << StmtFunction("init", <<>>, << ret >>) >>) >>
         [] context = "nested_in_init" ->
              \* class A { init() { fun h() { return v; } } }
              << StmtClass("A", None,
                    << StmtFunction("init", <<>>,
                          << StmtFunction("h", <<>>, << ret >>) >>) >>) >>
         [] context = "after_nested_in_init" ->
              \* class A { init() { fun g() { return 2; } return v; } }
              << StmtClass("A", None,
                    << StmtFunction("init", <<>>, << g, ret >>) >>) >>
         [] context = "after_function" ->     \* fun g() { return 2; } return v;
              << g, ret >>
         [] context = "block_in_function" ->  \* fun f() { { return v; } }
              << StmtFunction("f", <<>>, << StmtBlock(<< ret >>) >>) >>
         [] context = "init_in_function" ->
              \* fun f() { class A { init() { return v; } } }
              << StmtFunction("f", <<>>,
                    << StmtClass("A", None,
                          << StmtFunction("init", <<>>, << ret >>) >>) >>) >>
         [] context = "after_class_in_function" ->
              \* fun f() { class A { init() { return; } } return v; }
              << StmtFunction("f", <<>>,
                    << StmtClass("A", None,
                          << StmtFunction("init", <<>>, << StmtReturn(None) >>) >>),
                       ret >>) >>
         [] context = "method_after_init" ->
              \* class A { init() { return; } m() { return v; } }
              << StmtClass("A", None,
                    << StmtFunction("init", <<>>, << StmtReturn(None) >>),
                       StmtFunction("m", <<>>, << ret >>) >>) >>

(* The keyword family:  print this;  or  print super.m;  (the statement    *)
(* under test) placed in one of the contexts below.                        *)
ClassContexts ==
    {"top", "after_class", "function", "class", "subclass", "class_in_subclass",
     "after_class_in_subclass", "subclass_in_class", "after_subclass_in_class",
     "after_subclass", "function_in_class"}

ClassKeywords == {"this", "super"}

KeywordIn(context, keyword) ==
    LET use == StmtPrint(IF keyword = "this" THEN ExprThis(1) ELSE ExprSuper("m", 1))
        A == StmtClass("A", None, <<>>)
        base == ExprVariable("A", 2)
        method(name, body) == StmtFunction(name, <<>>, body)
    IN CASE context = "top" ->                \* print kw;
              << use >>
         [] context = "after_class" ->        \* class A {} print kw;
              << A, use >>
         [] context = "function" ->           \* fun f() { print kw; }
              << StmtFunction("f", <<>>, << use >>) >>
         [] context = "class" ->              \* class A { m() { print kw; } }
              << StmtClass("A", None, << method("m", << use >>) >>) >>
         [] context = "subclass" ->
              \* class A {} class B < A { m() { print kw; } }
              << A, StmtClass("B", base, << method("m", << use >>) >>) >>
         [] context = "class_in_subclass" ->
              \* class A {} class B < A { m() { class C { n() { print kw; } } } }
              << A, StmtClass("B", base,
                       << method("m",
                             << StmtClass("C", None,
                                   << method("n", << use >>) >>) >>) >>) >>
         [] context = "after_class_in_subclass" ->
              \* class A {} class B < A { m() { class C {} print kw; } }
              << A, StmtClass("B", base,
                       << method("m", << StmtClass("C", None, <<>>), use >>) >>) >>
         [] context = "subclass_in_class" ->
              \* class A { m() { class C < A { n() { print kw; } } } }
              << StmtClass("A", None,
                    << method("m",
                          << StmtClass("C", base,
                                << method("n", << use >>) >>) >>) >>) >>
         [] context = "after_subclass_in_class" ->
              \* class A { m() { class C < A {} print kw; } }
              << StmtClass("A", None,
                    << method("m", << StmtClass("C", base, <<>>), use >>) >>) >>
         [] context = "after_subclass" ->     \* class A {} class B < A {} print kw;
              << A, StmtClass("B", base, <<>>), use >>
         [] context = "function_in_class" ->
              \* class A { m() { fun f() { print kw; } } }
              << StmtClass("A", None,
                    << method("m",
                          << StmtFunction("f", <<>>, << use >>) >>) >>) >>

(* The runtime error family:  print "before";  then a statement that       *)
(* prints "in" and fails (the read of the undefined variable missing, or   *)
(* a superclass that is not a class) at the depth named by the context,    *)
(* with a  print "after";  behind it at every nesting level.               *)
ErrorContexts ==
    {"top", "block", "call", "while", "method", "init", "argument", "superclass",
     "deep"}

RuntimeErrorIn(context) ==
    LET before == StmtPrint(Str("before"))
        after == StmtPrint(Str("after"))
        fails == StmtExpression(ExprVariable("missing", 90))
        in == << StmtPrint(Str("in")), fails, after >>
        call(name, id) == StmtExpression(ExprCall(ExprVariable(name, id), <<>>))
    IN CASE context = "top" ->        \* print "in"; missing; print "after";
              << before >> \o in
         [] context = "block" ->      \* { print "in"; missing; ... } ...
              << before, StmtBlock(in), after >>
         [] context = "call" ->       \* fun f() { print "in"; missing; ... } f(); ...
              << before, StmtFunction("f", <<>>, in), call("f", 91), after >>
         [] context = "while" ->      \* while (true) { print "in"; missing; ... } ...
              << before, StmtWhile(Bool(TRUE), StmtBlock(in)), after >>
         [] context = "method" ->     \* class A { m() { ... } } A().m(); ...
              << before,
                 StmtClass("A", None, << StmtFunction("m", <<>>, in) >>),
                 StmtExpression(
                    ExprCall(ExprGet(ExprCall(ExprVariable("A", 91), <<>>), "m"), <<>>)),
                 after >>
         [] context = "init" ->       \* class A { init() { ... } } A(); ...
              << before,
                 StmtClass("A", None, << StmtFunction("init", <<>>, in) >>),
                 call("A", 91), after >>
         [] context = "argument" ->   \* fun f(a) { ... } print "in"; f(missing); ...
              << before,
                 StmtFunction("f", <<"a">>, << after >>),
                 StmtPrint(Str("in")),
                 StmtExpression(ExprCall(ExprVariable("f", 91),
                                         << ExprVariable("missing", 90) >>)),
                 after >>
         [] context = "superclass" -> \* var A = 1; { print "in"; class B < A {} ... } ...
              << before, StmtVar("A", Num(1)),
                 StmtBlock(<< StmtPrint(Str("in")),
                              StmtClass("B", ExprVariable("A", 91),
                                        << StmtFunction("m", <<>>, << after >>) >>),
                              after >>),
                 after >>
         [] context = "deep" ->
              \* class A {} class B < A { m() { while (true) { var x; { ... } ... } ... } }
              \* fun f() { { B().m(); ... } ... }  { f(); ... } ...
              << before,
                 StmtClass("A", None, <<>>),
                 StmtClass("B", ExprVariable("A", 91),
                    << StmtFunction("m", <<>>,
                          << StmtWhile(Bool(TRUE),
                                StmtBlock(<< StmtVar("x", Num(1)),
                                             StmtBlock(in), after >>)),
                             after >>) >>),
                 StmtFunction("f", <<>>,
                    << StmtBlock(
                          << StmtExpression(
                                ExprCall(ExprGet(ExprCall(ExprVariable("B", 92), <<>>),
                                                 "m"), <<>>)),
                             after >>),
                       after >>),
                 StmtBlock(<< call("f", 93), after >>),
                 after >>

-----------------------------------------------------------------------------
(* Programs given as token lists, as Scanner::scan_tokens hands them to    *)
(* the parser: PiecesLen pieces, piece i written on the lines 2i-1 and 2i, *)
(* and the Eof token on the last line.                                     *)

PiecesLen == 2

Pieces == {"var_ok", "print_ok", "call_a", "call_clock", "unary", "var_bad",
           "print_nosemi", "paren_bad", "block_bad", "assign_bad"}

Tk(type, lexeme, line) == Token(type, lexeme, ONil, line)

TkNumber(n, line) == Token("Number", ToString(n), ONumber(n), line)

piece_tokens(kind, l) ==
    CASE kind = "var_ok" ->        \* var a = 1;
           <<Tk("Var", "var", l), Tk("Identifier", "a", l), Tk("Equal", "=", l),
             TkNumber(1, l), Tk("Semicolon", ";", l)>>
      [] kind = "print_ok" ->      \* print a;
           <<Tk("Print", "print", l), Tk("Identifier", "a", l),
             Tk("Semicolon", ";", l)>>
      [] kind = "call_a" ->        \* a(       and on the next line   );
           <<Tk("Identifier", "a", l), Tk("LeftParen", "(", l),
             Tk("RightParen", ")", l + 1), Tk("Semicolon", ";", l + 1)>>
      [] kind = "call_clock" ->    \* clock(1  and on the next line   );
           <<Tk("Identifier", "clock", l), Tk("LeftParen", "(", l), TkNumber(1, l),
             Tk("RightParen", ")", l + 1), Tk("Semicolon", ";", l + 1)>>
      [] kind = "unary" ->         \* print !-(a);
           <<Tk("Print", "print", l), Tk("Bang", "!", l), Tk("Minus", "-", l),
             Tk("LeftParen", "(", l), Tk("Identifier", "a", l),
             Tk("RightParen", ")", l), Tk("Semicolon", ";", l)>>
      [] kind = "var_bad" ->       \* var = 1;
           <<Tk("Var", "var", l), Tk("Equal", "=", l), TkNumber(1, l),
             Tk("Semicolon", ";", l)>>
      [] kind = "print_nosemi" ->  \* print 1
           <<Tk("Print", "print", l), TkNumber(1, l)>>
      [] kind = "paren_bad" ->     \* (1;
           <<Tk("LeftParen", "(", l), TkNumber(1, l), Tk("Semicolon", ";", l)>>
      [] kind = "block_bad" ->     \* { var;   and on the next line   print a; }
           <<Tk("LeftBrace", "{", l), Tk("Var", "var", l), Tk("Semicolon", ";", l),
             Tk("Print", "print", l + 1), Tk("Identifier", "a", l + 1),
             Tk("Semicolon", ";", l + 1), Tk("RightBrace", "}", l + 1)>>
      [] kind = "assign_bad" ->    \* 1 = a;
           <<TkNumber(1, l), Tk("Equal", "=", l), Tk("Identifier", "a", l),
             Tk("Semicolon", ";", l)>>

first_line(i) == 2 * i - 1

RECURSIVE pieces_tokens(_, _)
pieces_tokens(k, i) ==
    IF i > PiecesLen THEN <<Tk("Eof", "", 2 * PiecesLen)>>
    ELSE piece_tokens(k[i], first_line(i)) \o pieces_tokens(k, i + 1)

Scan(k) == pieces_tokens(k, 1)

-----------------------------------------------------------------------------
(* The violations family: ViolLen statements in a row, each of which       *)
(* breaks the rules of the resolver as often as violation_reports says.    *)
ViolLen == 2

Violations == {"none", "return_top", "this_top", "super_top", "redeclare",
               "own_initializer", "self_inherit", "init_value", "no_superclass",
               "two_in_function", "three_in_class"}

ViolId(p, j) == 300 + 10 * p + j

Violation(kind, p) ==
    LET a_twice == StmtBlock(<< StmtVar("a", None), StmtVar("a", None) >>)
        this == StmtPrint(ExprThis(ViolId(p, 1)))
        super == StmtPrint(ExprSuper("m", ViolId(p, 2)))
        method(name, body) == StmtFunction(name, <<>>, body)
    IN CASE kind = "none" ->              \* var x = 1;
              StmtVar("x", Num(1))
         [] kind = "return_top" ->        \* return;
              StmtReturn(None)
         [] kind = "this_top" ->          \* print this;
              this
         [] kind = "super_top" ->         \* print super.m;
              super
         [] kind = "redeclare" ->         \* { var a; var a; }
              a_twice
         [] kind = "own_initializer" ->   \* { var a = a; }
              StmtBlock(<< StmtVar("a", ExprVariable("a", ViolId(p, 3))) >>)
         [] kind = "self_inherit" ->      \* class A < A {}
              StmtClass("A", ExprVariable("A", ViolId(p, 3)), <<>>)
         [] kind = "init_value" ->        \* class B { init() { return 1; } }
              StmtClass("B", None, << method("init", << StmtReturn(Num(1)) >>) >>)
         [] kind = "no_superclass" ->     \* class C { m() { print super.m; } }
              StmtClass("C", None, << method("m", << super >>) >>)
         [] kind = "two_in_function" ->   \* fun f() { { var a; var a; } print this; }
              StmtFunction("f", <<>>, << a_twice, this >>)
         [] kind = "three_in_class" ->
              \* class D { init() { return 1; { var a; var a; } }
              \*           m() { print super.m; } }
              StmtClass("D", None,
                 << method("init", << StmtReturn(Num(1)), a_twice >>),
                    method("m", << super >>) >>)

Violating(k) == [p \in 1..ViolLen |-> Violation(k[p], p)]

-----------------------------------------------------------------------------
(* Chains of frames for Environment::assign: the globals and up to         *)
(* ChainLen - 1 frames below it, each binding some of ChainNames to the    *)
(* number of its frame.                                                    *)
ChainLen == 3

ChainNames == {"a", "b"}

Chains == UNION { [1..n -> SUBSET ChainNames] : n \in 1..ChainLen }

Chain(bound) ==
    [i \in 1..Len(bound) |->
        [enclosing |-> i - 1,
         values |-> [x \in bound[i] |-> ONumber(i)]
                    @@ IF i = 1 THEN "clock" :> OCallable(CallableClock(1)) ELSE <<>>]]

assigned_value == ONumber(0)

-----------------------------------------------------------------------------
(* Programs given as lexemes.  Lex gives the tokens scan_tokens makes of   *)
(* them, all on line 1.                                                    *)

token_type(lexeme) ==
    CASE lexeme = "(" -> "LeftParen"
      [] lexeme = ")" -> "RightParen"
      [] lexeme = "{" -> "LeftBrace"
      [] lexeme = "}" -> "RightBrace"
      [] lexeme = ";" -> "Semicolon"
      [] lexeme = "+" -> "Plus"
      [] lexeme = "=" -> "Equal"
      [] lexeme = "==" -> "EqualEqual"
      [] lexeme = "<" -> "Less"
      [] lexeme = "for" -> "For"
      [] lexeme = "if" -> "If"
      [] lexeme = "print" -> "Print"
      [] lexeme = "var" -> "Var"
      [] lexeme \in {"0", "1", "3", "4"} -> "Number"
      [] OTHER -> "Identifier"

token_literal(lexeme) ==
    CASE lexeme = "0" -> ONumber(0)
      [] lexeme = "1" -> ONumber(1)
      [] lexeme = "3" -> ONumber(3)
      [] lexeme = "4" -> ONumber(4)
      [] OTHER -> ONil

Lex(lexemes) ==
    [i \in 1..Len(lexemes) |->
        Token(token_type(lexemes[i]), lexemes[i], token_literal(lexemes[i]), 1)]
      \o <<Tk("Eof", "", 1)>>

(* the tokens of a source that has one lexeme on each line *)
LexLines(lexemes) ==
    [i \in 1..Len(lexemes) |->
        Token(token_type(lexemes[i]), lexemes[i], token_literal(lexemes[i]), i)]
      \o <<Tk("Eof", "", IF lexemes = <<>> THEN 1 ELSE Len(lexemes))>>

(* The for family:                                                         *)
(*    var i = 0; var n = 0;                                                *)
(*    for (<init>; <cond>; <incr>) { print i; n = n + 1;                   *)
(*                                   if (n == 4) missing; }                *)
(*    print i;                                                             *)
(* the read of the undefined variable missing ends a loop that its         *)
(* condition does not end.                                                 *)
ForInits == {"none", "var", "expr"}

ForConds == {"none", "below_3", "below_0"}

ForIncrs == {"none", "add_1"}

ForLoop(init, cond, incr) ==
    <<"var", "i", "=", "0", ";", "var", "n", "=", "0", ";", "for", "(">>
      \o (CASE init = "none" -> <<";">>
            [] init = "var" -> <<"var", "i", "=", "1", ";">>
            [] init = "expr" -> <<"i", "=", "1", ";">>)
      \o (CASE cond = "none" -> <<>>
            [] cond = "below_3" -> <<"i", "<", "3">>
            [] cond = "below_0" -> <<"i", "<", "0">>)
      \o <<";">>
      \o (IF incr = "add_1" THEN <<"i", "=", "i", "+", "1">> ELSE <<>>)
      \o <<")", "{", "print", "i", ";", "n", "=", "n", "+", "1", ";",
           "if", "(", "n", "==", "4", ")", "missing", ";", "}",
           "print", "i", ";">>

(* The cursor family: every token sequence of at most CursorLen tokens     *)
(* over CursorAlphabet, each on a line of its own, followed by Eof.        *)
CursorLen == 3

CursorAlphabet == {"{", "}", ")", ";", "print", "var", "1"}

CursorSources == UNION { [1..n -> CursorAlphabet] : n \in 0..CursorLen }

-----------------------------------------------------------------------------
(* Parser::parse (src/src/parser.rs) and the pipeline up to the resolver.  *)

Parser_state == [current |-> current, errors |-> parse_errors,
                 counter |-> counter_usize, panicked |-> parser_panicked]

(* what one turn of the loop of parse does with the declaration d: one    *)
(* that is None is left out                                                *)
parse_push(d) ==
    /\ statements' = IF d.ok THEN Append(statements, d.v) ELSE statements
    /\ current' = d.P.current
    /\ parse_errors' = d.P.errors
    /\ counter_usize' = d.P.counter
    /\ parser_panicked' = d.P.panicked
    /\ lox' = [lox EXCEPT !.had_error = @ \/ d.P.errors # parse_errors]

(* one turn of the loop of parse *)
Parser_parse ==
    /\ pc = "parse" /\ ~parser_panicked /\ ~Parser_is_at_end(Parser_state)
    /\ parse_push(Parser_rule("Parser_declaration", Parser_state, None))
    /\ UNCHANGED <<pc, prog, tokens, locals, errors, frames, environment, classes,
                   instances, counter_u128, kont, ctl, output, runtime_errors,
                   threads>>

(* the end of parse in a test; a reported error stops the pipeline *)
Parser_parse_end ==
    /\ pc = "parse" /\ ~parser_panicked /\ Parser_is_at_end(Parser_state)
    /\ lox.mode = "test"
    /\ pc' = IF parse_errors = <<>> THEN "start" ELSE "parse_error"
    /\ kont' = << [f |-> "interpret", rest |-> statements] >>
    /\ UNCHANGED <<static, frames, environment, classes, instances, counter_u128,
                   ctl, output, runtime_errors>>

-----------------------------------------------------------------------------
(* The driver (src/src/lox.rs).  lox.lines holds the sources still to be   *)
(* read: the file of run_file, or the lines of run_prompt up to the end of *)
(* the input.  A source is a sequence of pieces, one per line of text.     *)

FileLen == 2

ReplLen == 2

SourcePieces == {"var_ok", "print_ok", "print_nosemi", "return_top", "bad_char",
                 "block_rt"}

(* LoxInternal::new; mode "test" is the harness of the tests, which has no *)
(* LoxInternal                                                             *)
Lox_new(mode, lines) ==
    [mode |-> mode, had_error |-> FALSE, had_runtime_error |-> FALSE,
     lines |-> lines, exit |-> -1]

(* what scan_token makes of a piece on line l:  return;  gives two tokens, *)
(* { { print b; } }  gives seven, the character @ gives none and is        *)
(* reported                                                                *)
Scanner_scan_token(kind, l) ==
    CASE kind = "return_top" ->
           [tokens |-> <<Tk("Return", "return", l), Tk("Semicolon", ";", l)>>,
            reported |-> FALSE]
      [] kind = "block_rt" ->
           [tokens |-> <<Tk("LeftBrace", "{", l), Tk("LeftBrace", "{", l),
                         Tk("Print", "print", l), Tk("Identifier", "b", l),
                         Tk("Semicolon", ";", l), Tk("RightBrace", "}", l),
                         Tk("RightBrace", "}", l)>>,
            reported |-> FALSE]
      [] kind = "bad_char" -> [tokens |-> <<>>, reported |-> TRUE]
      [] OTHER -> [tokens |-> piece_tokens(kind, l), reported |-> FALSE]

(* Scanner::scan_tokens: the tokens of the source, the Eof token on its    *)
(* last line, and whether the error handler was called                     *)
RECURSIVE Scanner_scan_tokens(_, _)
Scanner_scan_tokens(source, l) ==
    IF l > Len(source)
    THEN [tokens |-> <<Tk("Eof", "", IF source = <<>> THEN 1 ELSE Len(source))>>,
          reported |-> FALSE]
    ELSE LET piece == Scanner_scan_token(source[l], l)
             rest == Scanner_scan_tokens(source, l + 1)
         IN [tokens |-> piece.tokens \o rest.tokens,
             reported |-> piece.reported \/ rest.reported]

(* run_file reading the file, run_prompt reading a line; then Lox::run up  *)
(* to Parser::new: line_error sets had_error through report                *)
Lox_run_scan(scanned) ==
    /\ tokens' = scanned.tokens
    /\ lox' = [lox EXCEPT !.had_error = @ \/ scanned.reported,
                          !.lines = Tail(@)]

Lox_read ==
    /\ pc = "read" /\ lox.lines # <<>>
    /\ Lox_run_scan(Scanner_scan_tokens(Head(lox.lines), 1))
    /\ current' = 1
    /\ parse_errors' = <<>>
    /\ statements' = <<>>
    /\ pc' = "parse"
    /\ UNCHANGED <<prog, parser_panicked, counter_usize, locals, errors, frames,
                   environment, classes, instances, counter_u128, kont, ctl,
                   output, runtime_errors, threads>>

(* Lox::run after parse(): the test of had_error, then interpret() *)
Lox_run ==
    /\ pc = "parse" /\ ~parser_panicked /\ Parser_is_at_end(Parser_state)
    /\ lox.mode # "test"
    /\ IF lox.had_error
       THEN pc' = "returned" /\ UNCHANGED <<kont, ctl>>
       ELSE /\ pc' = "interpret"
            /\ kont' = << [f |-> "interpret", rest |-> statements] >>
            /\ ctl' = Unit
    /\ UNCHANGED <<static, frames, environment, classes, instances, counter_u128,
                   output, runtime_errors>>

(* run_file after run() has returned: the exit code *)
Lox_run_file ==
    /\ pc \in {"returned", "done"} /\ lox.mode = "file"
    /\ lox' = [lox EXCEPT !.exit = IF lox.had_error THEN 65
                                   ELSE IF lox.had_runtime_error THEN 70
                                   ELSE 0]
    /\ pc' = "exit"
    /\ UNCHANGED <<program, frames, environment, classes, instances, counter_u128,
                   kont, ctl, output, runtime_errors>>

(* run_prompt after run() has returned: had_error is reset and the next    *)
(* line is read                                                            *)
Lox_run_prompt ==
    /\ pc \in {"returned", "done"} /\ lox.mode = "prompt"
    /\ lox' = [lox EXCEPT !.had_error = FALSE]
    /\ pc' = "read"
    /\ UNCHANGED <<program, frames, environment, classes, instances, counter_u128,
                   kont, ctl, output, runtime_errors>>

(* run_prompt at the end of the input: read_line yields Ok(0), the loop    *)
(* ends and main returns Ok(())                                            *)
Lox_run_prompt_end ==
    /\ pc = "read" /\ lox.lines = <<>>
    /\ lox' = [lox EXCEPT !.exit = 0]
    /\ pc' = "exit"
    /\ UNCHANGED <<program, frames, environment, classes, instances, counter_u128,
                   kont, ctl, output, runtime_errors>>

-----------------------------------------------------------------------------
(* Environment::assign called on the current frame *)
Environment_assign_call ==
    /\ pc = "assign"
    /\ LET r == Environment_assign(frames, environment, prog.target, assigned_value)
       IN IF r.ok THEN frames' = r.v /\ ctl' = Unit
          ELSE frames' = frames /\ ctl' = Raise(r.e)
    /\ pc' = "assigned"
    /\ UNCHANGED <<static, environment, classes, instances, counter_u128, kont,
                   output, runtime_errors>>

-----------------------------------------------------------------------------
(* unique_id (src/src/unique_id.rs) called from several threads.  Each of  *)
(* Threads threads makes up to Calls calls, of unique_usize or unique_u128 *)
(* as it chooses.  threads.mutex is the thread that holds the lock of      *)
(* COUNTER_U128 (0: none), threads.at[t] the place of thread t in the call *)
(* it is making, threads.returned[t] the calls that have returned to t, in *)
(* order, with the value each returned.                                    *)
Threads == 2

Calls == 2

(* the pipeline runs in one thread, which calls unique_id in the parser    *)
(* and the interpreter (counter_usize, counter_u128)                       *)
main_thread == [mutex |-> 0, at |-> <<>>, returned |-> <<>>]

may_call(t) == threads.at[t] = "idle" /\ Len(threads.returned[t]) < Calls

returns(t, f, id) ==
    [threads EXCEPT !.returned[t] = Append(@, [f |-> f, id |-> id])]

(* unique_usize: COUNTER_USIZE.fetch_add(1, Ordering::Relaxed), one atomic *)
(* read-modify-write that yields the value it found                        *)
unique_usize_fetch_add(t) ==
    /\ pc = "unique_id" /\ may_call(t)
    /\ counter_usize' = counter_usize + 1
    /\ threads' = returns(t, "unique_usize", counter_usize)
    /\ UNCHANGED <<pc, lox, prog, tokens, current, parse_errors, parser_panicked,
                   statements, locals, errors, frames, environment, classes,
                   instances, counter_u128, kont, ctl, output, runtime_errors>>

(* unique_u128: COUNTER_U128.lock() with the fault of not waiting for the  *)
(* thread that holds the lock; IdsAreUnique must reject it                 *)
unique_u128_lock_not_exclusive(t) ==
    /\ pc = "unique_id" /\ may_call(t)
    /\ threads' = [threads EXCEPT !.mutex = t, !.at[t] = "locked"]
    /\ UNCHANGED <<pc, lox, prog, tokens, current, parse_errors, parser_panicked,
                   counter_usize, statements, locals, errors, frames, environment,
                   classes, instances, counter_u128, kont, ctl, output,
                   runtime_errors>>

(* unique_u128: COUNTER_U128.lock().unwrap(); the thread waits while       *)
(* another holds the lock                                                  *)
unique_u128_lock(t) ==
    /\ pc = "unique_id" /\ may_call(t)
    /\ threads.mutex = 0
    /\ threads' = [threads EXCEPT !.mutex = t, !.at[t] = "locked"]
    /\ UNCHANGED <<pc, lox, prog, tokens, current, parse_errors, parser_panicked,
                   counter_usize, statements, locals, errors, frames, environment,
                   classes, instances, counter_u128, kont, ctl, output,
                   runtime_errors>>

(* unique_u128:  *guard += 1 *)
unique_u128_add(t) ==
    /\ pc = "unique_id" /\ threads.at[t] = "locked"
    /\ counter_u128' = counter_u128 + 1
    /\ threads' = [threads EXCEPT !.at[t] = "added"]
    /\ UNCHANGED <<pc, lox, prog, tokens, current, parse_errors, parser_panicked,
                   counter_usize, statements, locals, errors, frames, environment,
                   classes, instances, kont, ctl, output, runtime_errors>>

(* unique_u128:  *guard  is read and returned, the guard is dropped *)
unique_u128_return(t) ==
    /\ pc = "unique_id" /\ threads.at[t] = "added"
    /\ threads' = [returns(t, "unique_u128", counter_u128)
                      EXCEPT !.mutex = IF @ = t THEN 0 ELSE @, !.at[t] = "idle"]
    /\ UNCHANGED <<pc, lox, prog, tokens, current, parse_errors, parser_panicked,
                   counter_usize, statements, locals, errors, frames, environment,
                   classes, instances, counter_u128, kont, ctl, output,
                   runtime_errors>>

(* the statics of unique_id.rs at the start of the process, and Threads    *)
(* threads that have called nothing yet                                    *)
IdInit ==
    /\ pc = "unique_id"
    /\ lox = Lox_new("test", <<>>)
    /\ prog = [name |-> "unique_id"]
    /\ tokens = <<>>
    /\ current = 1
    /\ parse_errors = <<>>
    /\ parser_panicked = FALSE
    /\ counter_usize = 0
    /\ statements = <<>>
    /\ locals = <<>>
    /\ errors = <<>>
    /\ frames = <<>>
    /\ environment = 0
    /\ classes = <<>>
    /\ instances = <<>>
    /\ counter_u128 = 0
    /\ kont = <<>>
    /\ ctl = Unit
    /\ output = <<>>
    /\ runtime_errors = <<>>
    /\ threads = [mutex |-> 0, at |-> [t \in 1..Threads |-> "idle"],
                  returned |-> [t \in 1..Threads |-> <<>>]]

IdNext ==
    \E t \in 1..Threads :
       \/ unique_usize_fetch_add(t)
       \/ unique_u128_lock(t)
       \/ unique_u128_add(t)
       \/ unique_u128_return(t)

IdSpec == IdInit /\ [][IdNext]_vars

-----------------------------------------------------------------------------
(* Interpreter::new: the globals frame with clock, whose id is the first   *)
(* value of unique_u128                                                    *)
Init ==
    /\ \/ /\ \/ \E i \in 1..Len(Curated) :
                   /\ prog = [name |-> Curated[i].name]
                   /\ statements = Curated[i].statements
             \/ \E k \in [1..GenLen -> Pool] :
                   /\ prog = [name |-> "gen", k |-> k]
                   /\ statements = Gen(k)
             \/ \E callee \in Callees, m \in 0..MaxArgs :
                   /\ prog = [name |-> "arity", callee |-> callee, m |-> m]
                   /\ statements = Arity(callee, m)
             \/ \E place \in Places, second \in Seconds :
                   /\ prog = [name |-> "redeclare", place |-> place, second |-> second]
                   /\ statements = Redeclare(place, second)
             \/ \E site \in Sites, init \in Inits :
                   /\ prog = [name |-> "own_initializer", site |-> site, init |-> init]
                   /\ statements = OwnInitializer(site, init)
             \/ \E context \in ReturnContexts, value \in ReturnValues :
                   /\ prog = [name |-> "return", context |-> context, value |-> value]
                   /\ statements = ReturnIn(context, value)
             \/ \E context \in ClassContexts, keyword \in ClassKeywords :
                   /\ prog = [name |-> "keyword", context |-> context,
                              keyword |-> keyword]
                   /\ statements = KeywordIn(context, keyword)
             \/ \E k \in [1..ViolLen -> Violations] :
                   /\ prog = [name |-> "violations", k |-> k]
                   /\ statements = Violating(k)
             \/ \E context \in ErrorContexts :
                   /\ prog = [name |-> "runtime_error", context |-> context]
                   /\ statements = RuntimeErrorIn(context)
          /\ tokens = <<>>
          /\ pc = "start"
          /\ kont = << [f |-> "interpret", rest |-> statements] >>
          /\ lox = Lox_new("test", <<>>)
       \/ \E k \in [1..PiecesLen -> Pieces] :
             /\ prog = [name |-> "tokens", k |-> k]
             /\ statements = <<>>
             /\ tokens = Scan(k)
             /\ pc = "parse"
             /\ kont = <<>>
             /\ lox = Lox_new("test", <<>>)
       \/ \E init \in ForInits, cond \in ForConds, incr \in ForIncrs :
             /\ prog = [name |-> "for", init |-> init, cond |-> cond, incr |-> incr]
             /\ statements = <<>>
             /\ tokens = Lex(ForLoop(init, cond, incr))
             /\ pc = "parse"
             /\ kont = <<>>
             /\ lox = Lox_new("test", <<>>)
       \/ \E k \in CursorSources :
             /\ prog = [name |-> "cursor", k |-> k]
             /\ statements = <<>>
             /\ tokens = LexLines(k)
             /\ pc = "parse"
             /\ kont = <<>>
             /\ lox = Lox_new("test", <<>>)
       \/ \E bound \in Chains, name \in ChainNames :
             \* a call of assign on the innermost frame of a chain
             /\ prog = [name |-> "assign", bound |-> bound, target |-> name]
             /\ statements = <<>>
             /\ tokens = <<>>
             /\ pc = "assign"
             /\ kont = <<>>
             /\ lox = Lox_new("test", <<>>)
       \/ \E k \in [1..FileLen -> SourcePieces] :
             \* run_file: the file holds the pieces of k
             /\ prog = [name |-> "file", k |-> k]
             /\ statements = <<>>
             /\ tokens = <<>>
             /\ pc = "read"
             /\ kont = <<>>
             /\ lox = Lox_new("file", << k >>)
       \/ \E k \in [1..ReplLen -> SourcePieces] :
             \* run_prompt: line i holds the piece k[i]
             /\ prog = [name |-> "prompt", k |-> k]
             /\ statements = <<>>
             /\ tokens = <<>>
             /\ pc = "read"
             /\ kont = <<>>
             /\ lox = Lox_new("prompt", [i \in 1..ReplLen |-> << k[i] >>])
    /\ current = 1
    /\ parse_errors = <<>>
    /\ parser_panicked = FALSE
    /\ counter_usize = 0
    /\ locals = <<>>
    /\ errors = <<>>
    /\ frames = IF prog.name = "assign" THEN Chain(prog.bound)
                ELSE << [enclosing |-> 0,
                         values |-> ("clock" :> OCallable(CallableClock(1)))] >>
    /\ environment = Len(frames)
    /\ classes = <<>>
    /\ instances = <<>>
    /\ counter_u128 = 1
    /\ ctl = Unit
    /\ output = <<>>
    /\ runtime_errors = <<>>
    /\ threads = main_thread

(* Resolver::resolve on the parsed statements; the interpreter runs only   *)
(* when no static error was reported                                       *)
Resolve ==
    /\ pc = "start"
    /\ LET R == Resolver_resolve(statements)
       IN /\ locals' = R.locals
          /\ errors' = R.errors
          /\ pc' = IF R.panicked THEN "panic"
                   ELSE IF R.errors = <<>> THEN "interpret" ELSE "static_error"
    /\ UNCHANGED <<lox, prog, tokens, current, parse_errors, parser_panicked,
                   counter_usize, statements, frames, environment, classes, instances,
                   counter_u128, kont, ctl, output, runtime_errors, threads>>

Next ==
    \/ Environment_assign_call
    \/ Parser_parse
    \/ Parser_parse_end
    \/ Lox_read
    \/ Lox_run
    \/ Lox_run_file
    \/ Lox_run_prompt
    \/ Lox_run_prompt_end
    \/ Resolve
    \/ interpret
    \/ interpret_err
    \/ propagate
    \/ execute_block
    \/ execute_block_err
    \/ visit_block_stmt
    \/ visit_class_stmt
    \/ visit_class_stmt_superclass
    \/ visit_expression_stmt
    \/ visit_expression_stmt_end
    \/ visit_function_stmt
    \/ visit_if_stmt
    \/ visit_if_stmt_branch
    \/ visit_print_stmt
    \/ visit_print_stmt_write
    \/ visit_return_stmt
    \/ visit_return_stmt_raise
    \/ visit_var_stmt
    \/ visit_var_stmt_define
    \/ visit_while_stmt
    \/ visit_while_stmt_test
    \/ visit_while_stmt_again
    \/ visit_literal_expr
    \/ visit_variable_expr
    \/ visit_this_expr
    \/ visit_assign_expr
    \/ visit_assign_expr_store
    \/ visit_binary_expr
    \/ visit_binary_expr_left
    \/ visit_binary_expr_right
    \/ visit_logical_expr
    \/ visit_logical_expr_left
    \/ visit_get_expr
    \/ visit_get_expr_object
    \/ visit_set_expr
    \/ visit_set_expr_object
    \/ visit_set_expr_value
    \/ visit_super_expr
    \/ visit_grouping_expr
    \/ visit_unary_expr
    \/ visit_unary_expr_right
    \/ visit_call_expr
    \/ visit_call_expr_callee
    \/ visit_call_expr_argument
    \/ visit_call_expr_not_callable
    \/ visit_call_expr_arity
    \/ Clock_call
    \/ LoxFunction_call
    \/ LoxFunction_call_end
    \/ LoxFunction_call_err
    \/ LoxClass_call
    \/ LoxClass_call_end

Spec == Init /\ [][Next]_vars

-----------------------------------------------------------------------------
(* Properties.  Helpers shared by the statements below.                    *)

(* the lines a program has printed when interpret() returns *)
FinalOutput(name, lines) == (pc = "done" /\ prog.name = name) => output = lines

(* the frame d links up from the current frame exists and binds name *)
bound_at(d, name) ==
    LET a == ancestor(frames, environment, d)
    IN a # 0 /\ name \in DOMAIN frames[a].values

(* a step that calls execute_block: a new activation of it is on top *)
enters_block == Len(kont') > Len(kont) /\ Head(kont').f = "execute_block"

(* a step on which the activation of execute_block on top returns *)
leaves_block == Running /\ Top.f = "execute_block" /\ kont' = Tail(kont)

(* the n activations at the bottom of the stack K *)
below(K, n) == SubSeq(K, Len(K) - n + 1, Len(K))

(* a Return signal is travelling up the Err channel *)
return_travels == Running /\ ctl.m = "err" /\ ctl.e.kind = "Return"

-----------------------------------------------------------------------------
(* C1: in a program that resolves with no error, each time the interpreter *)
(* evaluates a Variable, Assign, This or Super node for which the resolver *)
(* recorded a distance d, the name is bound in the frame d enclosing links *)
(* up from the current frame (for Super: "super" at d and "this" at d-1):  *)
(* get_at never misses, ancestor never unwraps a missing parent, and       *)
(* assign_at overwrites an existing binding.                               *)
ResolvedNamesAreBound ==
    (Running /\ errors = <<>>) =>
        /\ (ctl.m = "eval" /\ ctl.expr.t = "Variable" /\ ctl.expr.id \in DOMAIN locals)
              => bound_at(locals[ctl.expr.id], ctl.expr.name)
        /\ (ctl.m = "eval" /\ ctl.expr.t = "This" /\ ctl.expr.id \in DOMAIN locals)
              => bound_at(locals[ctl.expr.id], "this")
        /\ (ctl.m = "eval" /\ ctl.expr.t = "Super" /\ ctl.expr.id \in DOMAIN locals)
              => /\ bound_at(locals[ctl.expr.id], "super")
                 /\ locals[ctl.expr.id] > 0
                 /\ bound_at(locals[ctl.expr.id] - 1, "this")
        /\ (ctl.m = "value" /\ Top.f = "visit_assign_expr"
               /\ Top.expr.id \in DOMAIN locals)
              => bound_at(locals[Top.expr.id], Top.expr.name)
        /\ (ctl.m = "panic")
              => ctl.why \notin {"Didn't find local variable",
                                 "Option::unwrap on None in ancestor"}

-----------------------------------------------------------------------------
(* C2: execute_block leaves the interpreter's current frame equal to the   *)
(* frame that was current before the call, on every exit path: it records  *)
(* the current frame when it is entered, keeps that record while its       *)
(* activation is on the stack, and makes it current again when it returns  *)
(* Ok, when a Return signal goes out and when a runtime error goes out; so *)
(* after every top-level statement the current frame is the globals.       *)
BlockRestoresFrameStep ==
    /\ enters_block => Head(kont').previous = environment
    /\ leaves_block => environment' = Top.previous
    /\ (Running /\ pc' = pc) =>
           /\ Len(kont') >= Len(kont) - 1
           /\ below(kont', Len(kont) - 1) = Tail(kont)
    /\ (Running /\ Top.f = "execute_block" /\ Len(kont') >= Len(kont)) =>
           /\ kont'[Len(kont') - Len(kont) + 1].f = "execute_block"
           /\ kont'[Len(kont') - Len(kont) + 1].previous = Top.previous

BlockRestoresFrame ==
    /\ []((Running /\ Top.f = "interpret" /\ ctl.m \in {"ok", "err"})
            => environment = globals)
    /\ [][BlockRestoresFrameStep]_vars

(* block_exits has run: a block ended normally, a return left a block in   *)
(* a function body, a runtime error left two nested blocks                 *)
BlockRestoresFrameWitness ==
    /\ pc = "done" /\ prog.name = "block_exits"
    /\ output = <<"in", "1">>
    /\ Len(runtime_errors) = 1
    /\ runtime_errors[1].message = "Undefined variable 'y'."
    /\ environment = globals

-----------------------------------------------------------------------------
(* the Fibonacci numbers the fib program prints *)
RECURSIVE fib_number(_)
fib_number(n) == IF n <= 1 THEN n ELSE fib_number(n - 2) + fib_number(n - 1)

(* C3: a return executed anywhere inside a function body ends exactly the  *)
(* innermost active call.  While the Return signal travels, every step     *)
(* pops one activation and runs nothing (no frame, instance or output      *)
(* changes, so no later statement of the call runs); blocks, ifs and       *)
(* whiles pass the signal on unchanged; the first LoxFunction::call it     *)
(* meets turns it into the value of the call expression (nil for a bare    *)
(* return in a non-initializer) and leaves the caller's activations as     *)
(* they were, so the caller goes on (nested_return prints early,           *)
(* g continues, nil, after; fib prints the Fibonacci numbers).             *)
ReturnEndsInnermostCallStep ==
    /\ (Running /\ ctl.m = "exec" /\ ctl.stmt.t = "Return" /\ ctl.stmt.value = None)
          => ctl' = Raise(Return(ONil)) /\ kont' = kont
    /\ (Running /\ ctl.m = "value" /\ Top.f = "visit_return_stmt")
          => ctl' = Raise(Return(ctl.v)) /\ kont' = Tail(kont)
    /\ (return_travels /\ Top.f # "interpret") =>
          /\ kont' = Tail(kont)
          /\ UNCHANGED <<frames, classes, instances, output, runtime_errors>>
          /\ IF Top.f = "LoxFunction_call"
             THEN /\ ctl'.m = "value"
                  /\ ~Top.function.is_initializer => ctl'.v = ctl.e.value
             ELSE ctl' = ctl

ReturnEndsInnermostCall ==
    /\ [](FinalOutput("nested_return", <<"early", "g continues", "nil", "after">>))
    /\ [](FinalOutput("fib", [i \in 1..FibRuns |-> ToString(fib_number(i - 1))]))
    /\ [][ReturnEndsInnermostCallStep]_vars

(* nested_return has run: f returned from inside a while, two blocks and   *)
(* an if, and with a bare return; g went on after f and returned itself    *)
ReturnEndsInnermostCallWitness ==
    /\ pc = "done" /\ prog.name = "nested_return"
    /\ output = <<"early", "g continues", "nil", "after">>
    /\ runtime_errors = <<>>

-----------------------------------------------------------------------------
(* C4: in a program that resolves with no error a Return signal never      *)
(* reaches the top-level driver: while one travels, an activation of       *)
(* LoxFunction::call is below it; every error interpret() receives is a    *)
(* RuntimeError, and the expect("Unexpected error") never fails.           *)
ReturnNeverReachesDriver ==
    (pc = "interpret" /\ lox.mode = "test" /\ errors = <<>>) =>
        /\ ctl # Panic("Unexpected error")
        /\ (Running /\ ctl.m = "err" /\ Top.f = "interpret")
              => ctl.e.kind = "RuntimeError"
        /\ return_travels => \E i \in 1..Len(kont) : kont[i].f = "LoxFunction_call"

(* interpret() receives the error of block_exits, a program in which a     *)
(* return has travelled before                                             *)
ReturnNeverReachesDriverWitness ==
    /\ Running /\ ctl.m = "err" /\ Top.f = "interpret"
    /\ prog.name = "block_exits" /\ output = <<"in", "1">>

-----------------------------------------------------------------------------
(* the Variable node of the body of `show`, declared at position p of the  *)
(* block of a program of the block family                                  *)
show_reads_a(p) ==
    /\ Running /\ prog.name = "gen" /\ prog.k[p] = "FunShow"
    /\ ctl.m = "eval" /\ ctl.expr.t = "Variable" /\ ctl.expr.id = GenId(p, 1)

(* C5: a variable use inside a function body refers to the declaration in  *)
(* scope textually at the use: when a block declares a function that reads *)
(* `a`, bound only globally at that point, every call of the function      *)
(* reads the global `a`, whether or not the block declares `var a` later   *)
(* (static_scope prints global, global).                                   *)
StaticScopeStep ==
    \A p \in 1..GenLen :
        (show_reads_a(p) /\ \A q \in 1..(p - 1) : prog.k[q] \notin {"VarA", "VarSelf"})
           => ctl' = Value(frames[globals].values["a"])

StaticScope ==
    /\ [](FinalOutput("static_scope", <<"global", "global">>))
    /\ [][StaticScopeStep]_vars

(* show runs after the block that declared it has bound its own `a` *)
StaticScopeWitness ==
    \E p \in 1..GenLen :
        /\ show_reads_a(p)
        /\ \A q \in 1..(p - 1) : prog.k[q] \notin {"VarA", "VarSelf"}
        /\ "a" \in DOMAIN frames[frames[environment].enclosing].values
        /\ frames[frames[environment].enclosing].values["a"] # frames[globals].values["a"]

-----------------------------------------------------------------------------
(* C6: a function value keeps the frame that was current when its          *)
(* declaration was executed, and every call of it creates a new frame      *)
(* whose parent is that frame, not the caller's; the frames that existed   *)
(* before the call are untouched by it, so what one call assigns to a      *)
(* captured variable is there for the next (counter_closure prints 1 2 3). *)
ClosureIsCapturedFrameStep ==
    /\ (Running /\ ctl.m = "exec" /\ ctl.stmt.t = "Function") =>
          /\ ctl.stmt.name \in DOMAIN frames'[environment].values
          /\ frames'[environment].values[ctl.stmt.name].k = "Callable"
          /\ frames'[environment].values[ctl.stmt.name].callable.kind = "Function"
          /\ frames'[environment].values[ctl.stmt.name].callable.closure = environment
          /\ frames'[environment].values[ctl.stmt.name].callable.declaration = ctl.stmt
    /\ (Running /\ ctl.m = "call" /\ Top.callee.k = "Callable"
           /\ Top.callee.callable.kind = "Function"
           /\ Len(Top.arguments) = Len(Top.callee.callable.declaration.params)) =>
          /\ Len(frames') = Len(frames) + 1
          /\ environment' = Len(frames) + 1
          /\ frames'[Len(frames) + 1].enclosing = Top.callee.callable.closure
          /\ \A e \in 1..Len(frames) : frames'[e] = frames[e]
    /\ Len(frames') >= Len(frames)
    /\ \A e \in 1..Len(frames) : frames'[e].enclosing = frames[e].enclosing

ClosureIsCapturedFrame ==
    /\ [](FinalOutput("counter_closure", <<"1", "2", "3">>))
    /\ [][ClosureIsCapturedFrameStep]_vars

(* the third call of the counter, made from the globals while its closure  *)
(* is the frame of the call of make_counter                                *)
ClosureIsCapturedFrameWitness ==
    /\ Running /\ prog.name = "counter_closure" /\ ctl.m = "call"
    /\ Top.callee.k = "Callable" /\ Top.callee.callable.kind = "Function"
    /\ Top.callee.callable.declaration.name = "count"
    /\ Top.callee.callable.closure # environment
    /\ output = <<"1", "2">>

-----------------------------------------------------------------------------
(* the Assign nodes that stand directly in a block which declares no       *)
(* variable of the assigned name                                           *)
assigns_outer_name(id) ==
    \/ prog.name = "lexical_scope" /\ id = 6
    \/ /\ prog.name = "gen"
       /\ \E p \in 1..GenLen :
             /\ id = GenId(p, 1)
             /\ \/ prog.k[p] = "NestedAssign"
                \/ /\ prog.k[p] = "AssignA"
                   /\ \A q \in 1..GenLen : prog.k[q] \notin {"VarA", "VarSelf"}

(* the first frame of the chain of env that binds name, 0 when none does *)
RECURSIVE nearest_binding(_, _, _)
nearest_binding(F, env, name) ==
    IF env = 0 THEN 0
    ELSE IF name \in DOMAIN F[env].values THEN env
    ELSE nearest_binding(F, F[env].enclosing, name)

(* a step that completes a `var` declaration of name with value *)
var_defines(name, value) ==
    /\ Len(frames') = Len(frames)
    /\ \A e \in 1..Len(frames) : e # environment => frames'[e] = frames[e]
    /\ frames'[environment].enclosing = frames[environment].enclosing
    /\ DOMAIN frames'[environment].values = DOMAIN frames[environment].values \cup {name}
    /\ \A n \in DOMAIN frames'[environment].values :
          frames'[environment].values[n]
             = IF n = name THEN value ELSE frames[environment].values[n]

(* C7: a `var` declaration writes only the current frame (inside a block,  *)
(* the block's own frame) and changes no binding of any enclosing frame;   *)
(* an assignment inside a block to a name the block does not declare       *)
(* overwrites the nearest enclosing binding and nothing else; leaving a    *)
(* block changes no frame, so the outer value, or the assigned one, is     *)
(* what is read after the block (lexical_scope prints 3 5 7 5 3 1 1).      *)
VarWritesOwnFrameStep ==
    /\ (Running /\ ctl.m = "exec" /\ ctl.stmt.t = "Var" /\ ctl.stmt.initializer = None)
          => var_defines(ctl.stmt.name, ONil)
    /\ (Running /\ ctl.m = "value" /\ Top.f = "visit_var_stmt")
          => var_defines(Top.stmt.name, ctl.v)
    /\ (Running /\ ctl.m = "value" /\ Top.f = "visit_assign_expr"
           /\ assigns_outer_name(Top.expr.id)) =>
          LET n == nearest_binding(frames, frames[environment].enclosing, Top.expr.name)
          IN /\ Top.expr.name \notin DOMAIN frames[environment].values
             /\ n # 0
             /\ frames' = [frames EXCEPT ![n].values[Top.expr.name] = ctl.v]
             /\ ctl' = Value(ctl.v)
    /\ leaves_block => frames' = frames

VarWritesOwnFrame ==
    /\ [](FinalOutput("lexical_scope", <<"3", "5", "7", "5", "3", "1", "1">>))
    /\ [][VarWritesOwnFrameStep]_vars

(* lexical_scope has run: two nested blocks shadowed `a`, a third assigned *)
(* the global `a`                                                          *)
VarWritesOwnFrameWitness ==
    /\ pc = "done" /\ prog.name = "lexical_scope"
    /\ output = <<"3", "5", "7", "5", "3", "1", "1">>
    /\ frames[globals].values["a"] = ONumber(1)

-----------------------------------------------------------------------------
(* `this` is bound to an instance in frame 0 of the closure of function *)
bound_this(function) ==
    /\ "this" \in DOMAIN frames[function.closure].values
    /\ frames[function.closure].values["this"].k = "Instance"

(* C8: every call of a function whose initializer flag is set yields the   *)
(* instance bound as `this`, whether the body runs to its end or executes  *)
(* a bare return, and whether the class was called or instance.init(...);  *)
(* every such call finds `this` in frame 0 of its closure.                 *)
InitializerYieldsThisStep ==
    (Running /\ Top.f = "LoxFunction_call" /\ Top.function.is_initializer
       /\ (ctl.m = "ok" \/ (ctl.m = "err" /\ ctl.e.kind = "Return"))) =>
          /\ bound_this(Top.function)
          /\ ctl' = Value(frames[Top.function.closure].values["this"])
          /\ kont' = Tail(kont)

InitializerYieldsThis ==
    /\ []((Running /\ ctl.m = "call" /\ Top.callee.k = "Callable"
             /\ Top.callee.callable.kind = "Function"
             /\ Top.callee.callable.is_initializer)
            => /\ bound_this(Top.callee.callable)
               /\ Top.callee.callable.declaration.name = "init")
    /\ [](Running => \A i \in 1..Len(kont) :
              (kont[i].f = "LoxFunction_call" /\ kont[i].function.is_initializer)
                 => bound_this(kont[i].function))
    /\ [](FinalOutput("initializer", <<"true", "false", "false", "end">>))
    /\ [][InitializerYieldsThisStep]_vars

(* foo.init(false) has yielded foo, after Foo(true) ended by a bare return *)
InitializerYieldsThisWitness ==
    /\ Running /\ prog.name = "initializer"
    /\ ctl = Value(OInstance(1))
    /\ Top.f = "visit_var_stmt" /\ Top.stmt.name = "same"
    /\ instances[1].fields["y"] = OString("end")
    /\ output = <<"true">>

-----------------------------------------------------------------------------
(* the number of parameters the callee of a program of the call family     *)
(* declares                                                                *)
declared_arity(callee) == IF callee \in {"function", "class"} THEN 1 ELSE 0

arity_message(n, m) ==
    "Expected " \o ToString(n) \o " arguments but got " \o ToString(m) \o "."

(* C9: calling a callable with M arguments when its arity is N # M raises  *)
(* the runtime error "Expected N arguments but got M."; no statement of    *)
(* the callee runs and no instance is constructed.                         *)
ArityIsCheckedStep ==
    (Running /\ ctl.m = "call" /\ Top.callee.k = "Callable"
       /\ Len(Top.arguments) # LoxCallable_arity(classes, Top.callee.callable)) =>
          /\ ctl' = Raise(RuntimeError(Top.expr.paren,
                        arity_message(LoxCallable_arity(classes, Top.callee.callable),
                                      Len(Top.arguments))))
          /\ kont' = Tail(kont)
          /\ UNCHANGED <<frames, environment, classes, instances, output>>

ArityIsChecked ==
    /\ []((pc = "done" /\ prog.name = "arity" /\ prog.m # declared_arity(prog.callee))
            => /\ output = <<>>
               /\ instances = <<>>
               /\ Len(frames) = 1
               /\ runtime_errors = << RuntimeError(Token("RightParen", ")", ONil, 1),
                      arity_message(declared_arity(prog.callee), prog.m)) >>)
    /\ []((Running /\ prog.name = "arity" /\ ctl.m = "call")
            => LoxCallable_arity(classes, Top.callee.callable)
                  = declared_arity(prog.callee))
    /\ [][ArityIsCheckedStep]_vars

(* a class whose initializer takes one argument was called with two *)
ArityIsCheckedWitness ==
    /\ pc = "done" /\ prog.name = "arity"
    /\ prog.callee = "class" /\ prog.m = 2
    /\ runtime_errors # <<>>
    /\ runtime_errors[1].message = "Expected 1 arguments but got 2."
    /\ instances = <<>> /\ output = <<>>

-----------------------------------------------------------------------------
(* the first class of the superclass chain of class that declares `init`,  *)
(* 0 when none does                                                        *)
RECURSIVE init_owner(_, _)
init_owner(C, class) ==
    IF class = 0 THEN 0
    ELSE IF "init" \in DOMAIN C[class].methods THEN class
    ELSE init_owner(C, C[class].superclass)

(* C10: calling a class constructs a new instance on every call, looks up  *)
(* `init` in the class and then up its superclass chain and, if found,     *)
(* runs it bound to the new instance with the arguments of the call before *)
(* returning that instance; the arity of the class is the arity of the     *)
(* `init` that lookup finds, and 0 when the chain has none.                *)
ClassCallConstructsStep ==
    /\ (Running /\ ctl.m = "call" /\ Top.callee.k = "Callable"
           /\ Top.callee.callable.kind = "Class"
           /\ Len(Top.arguments) = LoxClass_arity(classes, Top.callee.callable.class)) =>
          LET class == Top.callee.callable.class
              owner == init_owner(classes, class)
              new == Len(instances) + 1
              init == classes[owner].methods["init"]
              this_frame == Len(frames) + 1
              call_frame == Len(frames) + 2
          IN /\ instances' = Append(instances, [class |-> class, fields |-> <<>>])
             /\ IF owner = 0
                THEN /\ ctl' = Value(OInstance(new))
                     /\ kont' = Tail(kont)
                     /\ frames' = frames
                ELSE /\ Len(frames') = call_frame
                     /\ \A e \in 1..Len(frames) : frames'[e] = frames[e]
                     /\ frames'[this_frame] =
                           [enclosing |-> init.closure,
                            values |-> ("this" :> OInstance(new))]
                     /\ frames'[call_frame].enclosing = this_frame
                     /\ \A i \in 1..Len(init.declaration.params) :
                           frames'[call_frame].values[init.declaration.params[i]]
                              = Top.arguments[i]
                     /\ environment' = call_frame
                     /\ kont'[1] = [f |-> "execute_block",
                                    rest |-> init.declaration.body,
                                    previous |-> environment]
                     /\ kont'[2].f = "LoxFunction_call"
                     /\ kont'[2].function.declaration = init.declaration
                     /\ kont'[2].function.closure = this_frame
                     /\ kont'[3] = [f |-> "LoxClass_call", instance |-> new]
                     /\ SubSeq(kont', 4, Len(kont')) = Tail(kont)
    /\ (Running /\ ctl.m = "value" /\ Top.f = "LoxClass_call")
          => ctl' = Value(OInstance(Top.instance)) /\ kont' = Tail(kont)

ClassCallConstructs ==
    /\ [](\A c \in 1..Len(classes) :
             LoxClass_arity(classes, c)
                = IF init_owner(classes, c) = 0 THEN 0
                  ELSE Len(classes[init_owner(classes, c)]
                              .methods["init"].declaration.params))
    /\ [](FinalOutput("inherited_init",
                      <<"init", "7", "C instance", "init", "init", "true">>))
    /\ []((pc = "done" /\ prog.name = "inherited_init")
            => /\ Len(instances) = 4
               /\ runtime_errors = <<RuntimeError(Token("RightParen", ")", ONil, 1), arity_message(1, 0))>>)
    /\ [][ClassCallConstructsStep]_vars

(* inherited_init has run: B, which inherits init(x) from A, was called    *)
(* three times with one argument and once with none; C has no init         *)
ClassCallConstructsWitness ==
    /\ pc = "done" /\ prog.name = "inherited_init"
    /\ output = <<"init", "7", "C instance", "init", "init", "true">>
    /\ Len(instances) = 4
    /\ instances[1] = [class |-> 2, fields |-> ("x" :> ONumber(7))]
    /\ instances[2] = [class |-> 3, fields |-> <<>>]

-----------------------------------------------------------------------------
(* the classes from class up its superclass links, nearest first *)
RECURSIVE superclass_chain(_, _)
superclass_chain(C, class) ==
    IF class = 0 THEN <<>> ELSE <<class>> \o superclass_chain(C, C[class].superclass)

(* the nearest class of the chain of class that declares a method name,    *)
(* 0 when none does                                                        *)
first_definer(C, class, name) ==
    LET chain == superclass_chain(C, class)
        hits == {j \in 1..Len(chain) : name \in DOMAIN C[chain[j]].methods}
    IN IF hits = {} THEN 0
       ELSE chain[CHOOSE j \in hits : \A h \in hits : j <= h]

(* the control state holds a function made by binding method to instance:  *)
(* the method's declaration, in a new frame that holds only `this` and     *)
(* whose parent is the method's closure                                    *)
bound_to(c, F, method, instance) ==
    /\ c.m = "value" /\ c.v.k = "Callable" /\ c.v.callable.kind = "Function"
    /\ c.v.callable.declaration = method.declaration
    /\ c.v.callable.is_initializer = method.is_initializer
    /\ c.v.callable.closure = Len(F)
    /\ F[Len(F)] = [enclosing |-> method.closure,
                    values |-> ("this" :> OInstance(instance))]

(* C11: obj.name on an instance yields the field `name` when the instance  *)
(* has one (whatever the classes declare); otherwise the method `name` of  *)
(* the nearest class of the chain class, superclass, ... that declares     *)
(* one, as a function bound to that instance; otherwise an error.          *)
(* property_lookup prints B.m (override), A.n (inherited), b (this),       *)
(* b (a bound method keeps its instance when stored on another),           *)
(* field (a field shadows the method), A.n, b.                             *)
PropertyLookupOrderStep ==
    (Running /\ ctl.m = "value" /\ Top.f = "visit_get_expr" /\ ctl.v.k = "Instance") =>
        LET instance == ctl.v.instance
            name == Top.expr.name
            owner == first_definer(classes, instances[instance].class, name)
        IN /\ kont' = Tail(kont)
           /\ IF name \in DOMAIN instances[instance].fields
              THEN /\ ctl' = Value(instances[instance].fields[name])
                   /\ frames' = frames
              ELSE IF owner # 0
              THEN /\ bound_to(ctl', frames', classes[owner].methods[name], instance)
                   /\ Len(frames') = Len(frames) + 1
                   /\ \A e \in 1..Len(frames) : frames'[e] = frames[e]
              ELSE /\ ctl'.m = "err"
                   /\ frames' = frames

PropertyLookupOrder ==
    /\ [](FinalOutput("property_lookup",
                      <<"B.m", "A.n", "b", "b", "field", "A.n", "b">>))
    /\ [][PropertyLookupOrderStep]_vars

(* b.n is read after the field n was set on b: the instance has a field    *)
(* and its class chain a method of that name                               *)
PropertyLookupOrderWitness ==
    /\ Running /\ prog.name = "property_lookup"
    /\ ctl.m = "value" /\ Top.f = "visit_get_expr" /\ ctl.v.k = "Instance"
    /\ Top.expr.name = "n"
    /\ "n" \in DOMAIN instances[ctl.v.instance].fields
    /\ first_definer(classes, instances[ctl.v.instance].class, "n") = 1
    /\ output = <<"B.m", "A.n", "b", "b">>

-----------------------------------------------------------------------------
(* C12: reading a property that is neither a field of the instance nor a   *)
(* method of its class chain, and reading super.m when no class of the     *)
(* superclass chain declares m, both end the program with the runtime      *)
(* error "Undefined property '<name>'." on the name token, the name in     *)
(* single quotes.                                                          *)
UndefinedPropertyIsQuoted ==
    /\ (pc = "done" /\ prog.name = "undefined_property")
          => /\ output = <<"1">>
             /\ runtime_errors
                   = <<RuntimeError("missing", "Undefined property 'missing'.")>>
    /\ (pc = "done" /\ prog.name = "undefined_super")
          => /\ output = <<"m">>
             /\ runtime_errors
                   = <<RuntimeError("missing", "Undefined property 'missing'.")>>

-----------------------------------------------------------------------------
(* the function of the innermost active call *)
current_function ==
    LET calls == {i \in 1..Len(kont) : kont[i].f = "LoxFunction_call"}
    IN kont[CHOOSE i \in calls : \A j \in calls : i <= j].function

(* the class whose declaration contains the declaration of function *)
lexical_class(function) ==
    CHOOSE c \in 1..Len(classes) :
        \E n \in DOMAIN classes[c].methods :
            classes[c].methods[n].declaration = function.declaration

(* C13: super.m in a method starts the lookup of m at the superclass of    *)
(* the class whose declaration contains the method, whatever the class of  *)
(* the instance is, and binds what it finds to the instance that is `this` *)
(* in the calling method.  With C < B < A, super.m in B.test called on an  *)
(* instance of C runs A.m with `this` that instance (super_chain prints    *)
(* A.m, c, C.m; call_superclass_method prints a, b).                       *)
SuperIsLexicalStep ==
    (Running /\ ctl.m = "eval" /\ ctl.expr.t = "Super") =>
        LET method == current_function
            this == frames[method.closure].values["this"]
            start == classes[lexical_class(method)].superclass
            owner == first_definer(classes, start, ctl.expr.method)
        IN /\ kont' = kont
           /\ this.k = "Instance"
           /\ start # 0
           /\ IF owner # 0
              THEN /\ bound_to(ctl', frames', classes[owner].methods[ctl.expr.method],
                               this.instance)
                   /\ Len(frames') = Len(frames) + 1
                   /\ \A e \in 1..Len(frames) : frames'[e] = frames[e]
              ELSE /\ ctl'.m = "err"
                   /\ frames' = frames

SuperIsLexical ==
    /\ [](FinalOutput("super_chain", <<"A.m", "c", "C.m">>))
    /\ [](FinalOutput("call_superclass_method", <<"a", "b">>))
    /\ [][SuperIsLexicalStep]_vars

(* super.m is evaluated in B.test, called on an instance of C: the class   *)
(* of the instance is not the class that contains the method               *)
SuperIsLexicalWitness ==
    /\ Running /\ prog.name = "super_chain"
    /\ ctl.m = "eval" /\ ctl.expr.t = "Super"
    /\ classes[lexical_class(current_function)].name = "B"
    /\ frames[current_function.closure].values["this"] = OInstance(1)
    /\ classes[instances[1].class].name = "C"

-----------------------------------------------------------------------------
(* visit_binary_expr has both operands of an == or != *)
compares == 
    /\ Running /\ ctl.m = "value" /\ Top.f = "visit_binary_expr" /\ Top.at = "right"
    /\ Top.expr.operator \in {"==", "!="}

(* the value of the comparison when the operands are equal exactly if same *)
comparison_yields(same) == Value(OBoolean(same = (Top.expr.operator = "==")))

(* C14: instances are compared by identity: a == b on two instance values  *)
(* is true exactly when both are the same instance, and a != b its         *)
(* negation; two instances made by two calls of a class are never equal,   *)
(* whatever their fields hold (instance_equality prints true, false,       *)
(* false, false, false, true).                                             *)
InstancesCompareByIdentityStep ==
    (compares /\ Top.left.k = "Instance" /\ ctl.v.k = "Instance")
       => ctl' = comparison_yields(Top.left.instance = ctl.v.instance)

InstancesCompareByIdentity ==
    /\ [](FinalOutput("instance_equality",
                      <<"true", "false", "false", "false", "false", "true">>))
    /\ [][InstancesCompareByIdentityStep]_vars

-----------------------------------------------------------------------------
(* C15: == and != are total: whatever the two operands are, also instances *)
(* whose fields lead back to the instance, the comparison ends and yields  *)
(* a Boolean, false for == (true for !=) when the operands are of          *)
(* different variants; it raises no error and does not abort               *)
(* (cyclic_equality goes on to print after).                               *)
EqualityIsTotalStep ==
    compares =>
        /\ ctl'.m = "value"
        /\ ctl'.v.k = "Boolean"
        /\ kont' = Tail(kont)
        /\ Top.left.k # ctl.v.k => ctl' = comparison_yields(FALSE)

EqualityIsTotal ==
    /\ []((prog.name = "cyclic_equality" /\ pc = "interpret") => ctl.m # "panic")
    /\ []((prog.name = "cyclic_equality" /\ pc = "done")
            => /\ Len(output) = 6
               /\ SubSeq(output, 1, 4) = <<"false", "false", "true", "false">>
               /\ output[6] = "after")
    /\ [][EqualityIsTotalStep]_vars

-----------------------------------------------------------------------------
(* the values that count as false: nil and false *)
falsy(v) == v = ONil \/ v = OBoolean(FALSE)

(* C16: a logical expression evaluates its left operand once; when that    *)
(* decides the result (truthy for `or`, nil or false for `and`) the left   *)
(* value itself is the result and the right operand is not evaluated;      *)
(* otherwise the right operand is evaluated in the place of the whole      *)
(* expression, so its value is the result as it is.  short_circuit prints  *)
(* each operand as it is evaluated: 1 1, nil 2 2, false false, true nil    *)
(* nil, 0 and the empty string twice; and_or prints a, b, false, d.        *)
LogicalShortCircuitsStep ==
    /\ (Running /\ ctl.m = "eval" /\ ctl.expr.t = "Logical") =>
          /\ ctl' = Eval(ctl.expr.left)
          /\ kont' = <<[f |-> "visit_logical_expr", expr |-> ctl.expr]>> \o kont
          /\ UNCHANGED <<frames, instances, output>>
    /\ (Running /\ ctl.m = "value" /\ Top.f = "visit_logical_expr") =>
          /\ kont' = Tail(kont)
          /\ UNCHANGED <<frames, instances, output>>
          /\ ctl' = IF Top.expr.operator = "or"
                    THEN IF falsy(ctl.v) THEN Eval(Top.expr.right) ELSE Value(ctl.v)
                    ELSE IF falsy(ctl.v) THEN Value(ctl.v) ELSE Eval(Top.expr.right)

LogicalShortCircuits ==
    /\ [](FinalOutput("short_circuit",
                      <<"1", "1", "nil", "2", "2", "false", "false",
                        "true", "nil", "nil", "0", "", "">>))
    /\ [](FinalOutput("and_or", <<"a", "b", "false", "d">>))
    /\ [](Running => \A i \in 1..Len(kont) :
              kont[i].f = "visit_logical_expr" => kont[i].expr.operator \in {"or", "and"})
    /\ [][LogicalShortCircuitsStep]_vars

(* side(false) has returned as the left operand of an `and`, after         *)
(* side(1) decided an `or` and side(nil) did not                           *)
LogicalShortCircuitsWitness ==
    /\ Running /\ prog.name = "short_circuit"
    /\ ctl = Value(OBoolean(FALSE))
    /\ Top.f = "visit_logical_expr" /\ Top.expr.operator = "and"
    /\ output = <<"1", "1", "nil", "2", "2", "false">>

-----------------------------------------------------------------------------
(* Calls of token programs.  A call site is a `(` that follows a callee    *)
(* and the `)` that ends its argument list; the argument lists of the      *)
(* pieces hold no parentheses, so that `)` is the first one after the `(`. *)

call_sites ==
    { s \in (1..Len(tokens)) \X (1..Len(tokens)) :
        /\ s[1] > 1 /\ s[1] < s[2]
        /\ tokens[s[1]].type = "LeftParen"
        /\ tokens[s[1] - 1].type = "Identifier"
        /\ tokens[s[2]].type = "RightParen"
        /\ \A j \in (s[1] + 1)..(s[2] - 1) : tokens[j].type # "RightParen" }

call_error_messages ==
    {"Can only call functions and classes."}
       \cup { arity_message(n, m) : n \in 0..(MaxArgs + 1), m \in 0..(MaxArgs + 1) }

(* the call whose callee and arguments have just been evaluated *)
at_call_site(s) ==
    /\ Top.expr.callee.t = "Variable"
    /\ Top.expr.callee.name = tokens[s[1] - 1].lexeme
    /\ Top.expr.paren.line = tokens[s[2]].line

CallErrorStep(token_of(_)) ==
    (Running /\ prog.name = "tokens" /\ ctl.m = "call") =>
       \E s \in call_sites :
          /\ at_call_site(s)
          /\ Top.callee.k # "Callable" =>
                ctl' = Raise(RuntimeError(token_of(s),
                                          "Can only call functions and classes."))
          /\ (Top.callee.k = "Callable" /\ ~arity_matches(Top)) =>
                ctl' = Raise(RuntimeError(token_of(s),
                           arity_message(LoxCallable_arity(classes, Top.callee.callable),
                                         Len(Top.arguments))))

CallErrorReported(token_of(_)) ==
    (pc = "done" /\ prog.name = "tokens" /\ runtime_errors # <<>>
        /\ runtime_errors[1].message \in call_error_messages)
      => \E s \in call_sites : runtime_errors[1].token = token_of(s)

opening_paren(s) == tokens[s[1]]

closing_paren(s) == tokens[s[2]]

(* C17 as stated: calling a value that is not callable raises "Can only    *)
(* call functions and classes.", a call with the wrong number of arguments *)
(* raises the arity error, and the token either error carries, whose line  *)
(* is reported, is the opening `(` of the call.                            *)
CallErrorOnOpeningParen ==
    /\ [](CallErrorReported(opening_paren))
    /\ [][CallErrorStep(opening_paren)]_vars

(* C17 amended: the token either error carries is the closing `)` that     *)
(* ends the argument list of the call.                                     *)
CallErrorOnClosingParen ==
    /\ [](CallErrorReported(closing_paren))
    /\ [][CallErrorStep(closing_paren)]_vars

(* a(  ) was called with a = 1 and clock(1  ) with one argument too many:  *)
(* both errors were reported on the line of their `)`                      *)
CallErrorOnClosingParenWitness ==
    /\ pc = "done" /\ prog.name = "tokens" /\ runtime_errors # <<>>
    /\ \/ /\ prog.k[1] = "var_ok" /\ prog.k[2] = "call_a"
          /\ runtime_errors[1].message = "Can only call functions and classes."
          /\ runtime_errors[1].token.line = first_line(2) + 1
       \/ /\ prog.k[1] = "call_clock"
          /\ runtime_errors[1].message = arity_message(0, 1)
          /\ runtime_errors[1].token.line = first_line(1) + 1

-----------------------------------------------------------------------------
(* Panic-mode recovery on token programs.  Every token of a token program  *)
(* differs from the others in its type or its line.                        *)

token_index(token) == CHOOSE i \in 1..Len(tokens) : tokens[i] = token

RECURSIVE piece_start(_, _)
piece_start(k, i) ==
    IF i = 1 THEN 1 ELSE piece_start(k, i - 1) + Len(piece_tokens(k[i - 1], 1))

well_formed(kind) == kind \in {"var_ok", "print_ok", "call_a", "call_clock", "unary"}

(* the pieces in which a ParseError is raised *)
erroneous(kind) == kind \in {"var_bad", "print_nosemi", "paren_bad", "block_bad"}

(* the piece a statement was parsed from, told by its shape *)
shape(stmt) ==
    CASE stmt.t = "Var" -> "var_ok"
      [] stmt.t = "Print" /\ stmt.expression.t = "Variable" -> "print_ok"
      [] stmt.t = "Print" /\ stmt.expression.t = "Unary" -> "unary"
      [] stmt.t = "Expression" /\ stmt.expression.t = "Call" ->
            IF stmt.expression.callee.name = "a" THEN "call_a" ELSE "call_clock"
      [] stmt.t = "Block" -> "block_bad"
      [] OTHER -> "assign_bad"

shapes(stmts) == [i \in 1..Len(stmts) |-> shape(stmts[i])]

stops_synchronize(j) ==
    \/ tokens[j].type = "Eof"
    \/ j > 1 /\ tokens[j - 1].type = "Semicolon"
    \/ tokens[j].type \in {"Class", "Fun", "Var", "For", "If", "While", "Print", "Return"}

(* where parsing resumes when the skipping starts at token `from` *)
resume_point(from) ==
    CHOOSE j \in from..Len(tokens) :
       /\ stops_synchronize(j)
       /\ \A i \in from..(j - 1) : ~stops_synchronize(i)

after_token(e) == IF tokens[e].type = "Eof" THEN e ELSE e + 1

last_error_index == token_index(parse_errors'[Len(parse_errors')].token)

parsed == prog.name = "tokens" /\ pc # "parse"

(* C18 as stated: every well-formed declaration before and after an        *)
(* erroneous one is in the returned statement list, and each erroneous     *)
(* declaration of the input is reported, so there are at least as many     *)
(* reports as erroneous declarations.                                      *)
RecoveryKeepsEveryDeclaration ==
    parsed =>
       /\ SelectSeq(shapes(statements), well_formed) = SelectSeq(prog.k, well_formed)
       /\ Len(parse_errors) >= Cardinality({ i \in 1..PiecesLen : erroneous(prog.k[i]) })

(* one turn of the loop of parse *)
RecoveryStep ==
    (pc = "parse" /\ ~Parser_is_at_end(Parser_state)) =>
       /\ Len(parse_errors') >= Len(parse_errors)
       /\ SubSeq(parse_errors', 1, Len(parse_errors)) = parse_errors
       /\ \/ statements' = statements
          \/ /\ Len(statements') = Len(statements) + 1
             /\ SubSeq(statements', 1, Len(statements)) = statements
       /\ statements' = statements =>
             /\ Len(parse_errors') > Len(parse_errors)
             /\ current' = resume_point(after_token(last_error_index))
       /\ \A i \in 1..PiecesLen :
             (prog.name = "tokens" /\ current = piece_start(prog.k, i)) =>
                /\ well_formed(prog.k[i]) =>
                      /\ parse_errors' = parse_errors
                      /\ Len(statements') = Len(statements) + 1
                      /\ shape(statements'[Len(statements')]) = prog.k[i]
                      /\ current' = piece_start(prog.k, i + 1)
                /\ erroneous(prog.k[i]) =>
                      /\ Len(parse_errors') > Len(parse_errors)
                      /\ token_index(parse_errors'[Len(parse_errors) + 1].token)
                            > current

(* C18 amended: after a parse error the declaration being parsed is        *)
(* discarded and the error reported; the token the error was reported at   *)
(* is skipped (unless it is EOF), then tokens until a `;` has just been    *)
(* consumed or the next token is class, fun, var, for, if, while, print,   *)
(* return or EOF, and parsing resumes there.  The declarations already in  *)
(* the statement list stay in it, a well-formed declaration that begins    *)
(* where parsing resumes is included and an erroneous one that begins      *)
(* there is reported.                                                      *)
RecoveryResumesAfterErrorToken ==
    /\ [](parsed => (pc = "parse_error") = (parse_errors # <<>>))
    /\ [][RecoveryStep]_vars

(* var = 1;  print a;  has been parsed: one error, reported at `=`, and    *)
(* the print statement after it is in the list.  print 1  print a;  has    *)
(* been parsed: the error was reported at the second print and that        *)
(* statement went with it.                                                 *)
RecoveryResumesAfterErrorTokenWitness ==
    /\ parsed /\ Len(parse_errors) = 1
    /\ \/ /\ prog.k[1] = "var_bad" /\ prog.k[2] = "print_ok"
          /\ parse_errors[1].token.type = "Equal"
          /\ shapes(statements) = <<"print_ok">>
       \/ /\ prog.k[1] = "print_nosemi" /\ prog.k[2] = "print_ok"
          /\ parse_errors[1].token.type = "Print"
          /\ parse_errors[1].token.line = first_line(2)
          /\ statements = <<>>

-----------------------------------------------------------------------------
(* Static errors of the resolver *)

resolved == pc \notin {"parse", "parse_error", "start"}

already_declared == "Already a variable with this name in this scope."

own_initializer == "Can't read local variable in its own initializer."

reports(message) == Cardinality({ i \in 1..Len(errors) : errors[i] = message })

same_scope(place) == place \in {"top", "block", "params", "body"}

(* C19 as stated: in any scope, the top-level scope included, declaring a  *)
(* name that is already declared in that same scope is reported as         *)
(* "Already a variable with this name in this scope.".                     *)
RedeclarationIsReportedInAnyScope ==
    (resolved /\ prog.name = "redeclare" /\ same_scope(prog.place)
        /\ prog.second = "a")
      => reports(already_declared) = 1

declarations_of_a(k) == { p \in DOMAIN k : k[p] \in {"VarA", "VarSelf"} }

declarations_of_show(k) == { p \in DOMAIN k : k[p] = "FunShow" }

more_than_one(S) == IF S = {} THEN 0 ELSE Cardinality(S) - 1

(* C19 amended: in any scope but the top-level one (a block, the scope of  *)
(* a function's parameters and body), declaring a name that is already     *)
(* declared in that same scope is reported, once for every declaration     *)
(* after the first; at the top level, and for a name declared in an        *)
(* enclosing scope only, nothing is reported.                              *)
RedeclarationIsReportedInLocalScopes ==
    /\ (resolved /\ prog.name = "redeclare") =>
          errors = IF same_scope(prog.place) /\ prog.place # "top" /\ prog.second = "a"
                   THEN <<already_declared>>
                   ELSE <<>>
    /\ (resolved /\ prog.name = "gen") =>
          reports(already_declared)
             = more_than_one(declarations_of_a(prog.k))
                  + more_than_one(declarations_of_show(prog.k))

(* fun f(a, a) {}  was resolved and the second parameter reported *)
RedeclarationIsReportedInLocalScopesWitness ==
    /\ pc = "static_error" /\ prog.name = "redeclare"
    /\ prog.place = "params" /\ prog.second = "a"
    /\ errors = <<already_declared>>

LocalScopes ==
    { << <<>> >>, << ("a" :> TRUE) >>, << ("a" :> TRUE), <<>> >>, << ("b" :> TRUE) >> }

reads_a(init) == init \in {"read", "nested"}

(* C20: while the initializer of a local  var a = <init>  is resolved, a   *)
(* is in the innermost scope marked not defined, so a read of a in <init>  *)
(* is reported as "Can't read local variable in its own initializer."      *)
(* also when an enclosing scope or the globals bind a; after the           *)
(* declaration a is marked defined and the reads after it are not          *)
(* reported.                                                               *)
OwnInitializerIsReported ==
    /\ (resolved /\ prog.name = "own_initializer") =>
          /\ errors = IF prog.site # "top" /\ reads_a(prog.init)
                      THEN <<own_initializer>>
                      ELSE <<>>
          /\ (errors = <<>> /\ prog.site # "top") =>
                (2 \in DOMAIN locals /\ locals[2] = 0)
    /\ \A scopes \in LocalScopes, init \in Inits :
          LET R == [Resolver_new EXCEPT !.scopes = scopes]
              declared == declare(R, "a")
              after == Resolver_visit_var_stmt(R, StmtVar("a", initializer_of(init)))
              n == Len(scopes)
          IN /\ declared.scopes[n]["a"] = FALSE
             /\ after.scopes[n]["a"] = TRUE
             /\ (\E i \in 1..Len(after.errors) : after.errors[i] = own_initializer)
                   = reads_a(init)

(* { var a = 0; { var a = a; print a; } }  was resolved: the read in the   *)
(* initializer was reported, the read after the declaration was not        *)
OwnInitializerIsReportedWitness ==
    /\ pc = "static_error" /\ prog.name = "own_initializer"
    /\ prog.site = "shadow_local" /\ prog.init = "read"
    /\ errors = <<own_initializer>>

-----------------------------------------------------------------------------
(* FunctionType of the resolver *)

top_level_code == "Can't return from top-level code."

from_initializer == "Can't return a value from an initializer."

FunctionTypes == {"None", "Function", "Initializer", "Method"}

(* the kind of the innermost function declaration that textually encloses  *)
(* the statement under test of ReturnIn(context, value)                    *)
innermost_function(context) ==
    CASE context \in {"top", "after_function"} -> "None"
      [] context \in {"function", "nested_in_init", "block_in_function",
                      "after_class_in_function"} -> "Function"
      [] context \in {"method", "method_after_init"} -> "Method"
      [] context \in {"init", "after_nested_in_init", "init_in_function"} ->
            "Initializer"

(* what a return statement is reported for, by the kind of the function    *)
(* around it                                                               *)
return_reports(kind, value) ==
    IF kind = "None" THEN <<top_level_code>>
    ELSE IF kind = "Initializer" /\ value = "value" THEN <<from_initializer>>
    ELSE <<>>

(* C21: a return statement is judged by the kind of the innermost function *)
(* declaration that textually encloses it: at the top level it is          *)
(* reported, also after a function declaration has ended; with a value     *)
(* directly in init it is reported, also after a function nested in init   *)
(* has ended; a bare return in init, and a return with a value in a        *)
(* function nested in init, in a method or in a function, are not          *)
(* reported.  resolve_function leaves current_function and the scope stack *)
(* as it found them, whatever the function's kind and body.                *)
FunctionTypeIsLexical ==
    /\ (resolved /\ prog.name = "return") =>
          errors = return_reports(innermost_function(prog.context), prog.value)
    /\ \A enclosing \in FunctionTypes, type \in FunctionTypes \ {"None"},
          value \in ReturnValues :
          LET R == [Resolver_new EXCEPT !.current_function = enclosing]
              ret == StmtReturn(IF value = "value" THEN Num(1) ELSE None)
              inside == resolve_function(R, StmtFunction("f", <<"p">>, << ret >>), type)
              after == Resolver_resolve_stmt(inside, ret)
          IN /\ inside.current_function = enclosing
             /\ inside.scopes = R.scopes
             /\ inside.errors = return_reports(type, value)
             /\ after.errors = inside.errors \o return_reports(enclosing, value)

(* class A { init() { fun g() { return 2; } return 1; } }  was resolved:   *)
(* the return of g was not reported, the return of init after it was       *)
FunctionTypeIsLexicalWitness ==
    /\ pc = "static_error" /\ prog.name = "return"
    /\ prog.context = "after_nested_in_init" /\ prog.value = "value"
    /\ errors = <<from_initializer>>

-----------------------------------------------------------------------------
(* ClassType of the resolver *)

this_outside_of_class == "Can't use 'this' outside of a class."

super_outside_of_class == "Can't use 'super' outside of a class."

super_without_superclass == "Can't use 'super' in a class with no superclass."

ClassTypes == {"None", "Class", "SubClass"}

(* the kind of the innermost class declaration that textually encloses the *)
(* statement under test of KeywordIn(context, keyword)                     *)
innermost_class(context) ==
    CASE context \in {"top", "after_class", "function", "after_subclass"} -> "None"
      [] context \in {"class", "class_in_subclass", "after_subclass_in_class",
                      "function_in_class"} -> "Class"
      [] context \in {"subclass", "after_class_in_subclass", "subclass_in_class"} ->
            "SubClass"

(* what a use of this or super is reported for, by the kind of the class   *)
(* around it                                                               *)
keyword_reports(kind, keyword) ==
    IF kind = "None"
    THEN IF keyword = "this" THEN <<this_outside_of_class>>
         ELSE <<super_outside_of_class>>
    ELSE IF kind = "Class" /\ keyword = "super" THEN <<super_without_superclass>>
    ELSE <<>>

(* C22: a use of this or super is judged by the kind of the innermost      *)
(* class declaration that textually encloses it: this outside any class is *)
(* reported, also after a class declaration has ended; super outside any   *)
(* class is reported; super in a class with no superclass is reported,     *)
(* also when that class is nested in a method of a class that has one, and *)
(* after a nested class with a superclass has ended.  visit_class_stmt     *)
(* leaves current_class and the scope stack as it found them.              *)
ClassTypeIsLexical ==
    /\ (resolved /\ prog.name = "keyword") =>
          errors = keyword_reports(innermost_class(prog.context), prog.keyword)
    /\ \A enclosing \in ClassTypes, superclass \in {None, ExprVariable("A", 2)},
          keyword \in ClassKeywords :
          LET R == [Resolver_new EXCEPT !.current_class = enclosing]
              use == StmtPrint(IF keyword = "this" THEN ExprThis(1)
                               ELSE ExprSuper("m", 1))
              class == StmtClass("C", superclass,
                                 << StmtFunction("n", <<>>, << use >>) >>)
              inside == Resolver_visit_class_stmt(R, class)
              after == Resolver_resolve_stmt(inside, use)
              kind == IF superclass = None THEN "Class" ELSE "SubClass"
          IN /\ inside.current_class = enclosing
             /\ inside.scopes = R.scopes
             /\ inside.errors = keyword_reports(kind, keyword)
             /\ after.errors = inside.errors \o keyword_reports(enclosing, keyword)

(* class A {} class B < A { m() { class C { n() { print super.m; } } } }   *)
(* was resolved: super in C, a class with no superclass, was reported      *)
ClassTypeIsLexicalWitness ==
    /\ pc = "static_error" /\ prog.name = "keyword"
    /\ prog.context = "class_in_subclass" /\ prog.keyword = "super"
    /\ errors = <<super_without_superclass>>

-----------------------------------------------------------------------------
(* Runtime errors *)

runtime_error_travels == ctl.m = "err" /\ ctl.e.kind = "RuntimeError"

(* from the raise of a RuntimeError to the return of interpret() every     *)
(* step unwinds one waiting activation and neither prints, nor writes a    *)
(* frame, a class or an instance, nor starts a statement or an expression; *)
(* the handler receives the error when the driver is reached, and nothing  *)
(* of the interpreter changes once interpret() has returned, until the     *)
(* driver starts the next run                                              *)
RuntimeErrorStopsStep ==
    /\ runtime_error_travels =>
          /\ output' = output /\ frames' = frames
          /\ classes' = classes /\ instances' = instances
          /\ Len(kont') < Len(kont)
          /\ \/ ctl' = ctl /\ runtime_errors' = runtime_errors /\ pc' = pc
             \/ /\ Top.f = "interpret"
                /\ ctl' = Stopped /\ pc' = "done"
                /\ runtime_errors' = Append(runtime_errors, ctl.e)
    /\ runtime_errors' # runtime_errors => runtime_error_travels
    /\ pc = "done" =>
          UNCHANGED <<output, frames, classes, instances, environment, kont, ctl,
                      runtime_errors>>

-----------------------------------------------------------------------------
(* The driver's flags and exit codes *)

(* run() has finished the static processing of the source it was given *)
static_done == pc \notin {"read", "parse"}

(* a lexical or a parse error was reported for the source, or the source   *)
(* breaks a rule of the resolver, which reports it                         *)
static_error_in_source ==
    lox.had_error \/ Resolver_resolve(statements).errors # <<>>

(* C24 as stated: in file mode, when a static (lexical, parse or resolver) *)
(* error was reported for the source, no statement of the program is       *)
(* executed and the exit code is 65; otherwise the exit code is 70 after a *)
(* runtime error and 0 after none; in REPL mode the flag of the static     *)
(* errors is clear whenever a line is read.                                *)
StaticErrorSuppressesRun ==
    /\ (prog.name = "file" /\ static_done /\ static_error_in_source) =>
          /\ pc # "interpret"
          /\ output = <<>> /\ runtime_errors = <<>>
          /\ Len(frames) = 1 /\ DOMAIN frames[globals].values = {"clock"}
          /\ pc = "exit" => lox.exit = 65
    /\ (prog.name = "file" /\ pc = "exit" /\ ~static_error_in_source) =>
          lox.exit = IF runtime_errors # <<>> THEN 70 ELSE 0
    /\ (prog.name = "prompt" /\ pc = "read") => ~lox.had_error

-----------------------------------------------------------------------------
(* The for statement *)

(* the loop variable when the loop of ForLoop(init, cond, incr) starts,    *)
(* what the condition compares it with, and what one increment adds        *)
for_start(init) == IF init = "none" THEN 0 ELSE 1

for_below(cond) == IF cond = "below_3" THEN 3 ELSE 0

for_step(incr) == IF incr = "add_1" THEN 1 ELSE 0

(* how often the body runs: not at all when the condition is false at the  *)
(* start, until the condition turns false when the increment moves towards *)
(* it, and else until the fourth turn reads missing                        *)
for_turns(init, cond, incr) ==
    IF cond # "none" /\ for_start(init) >= for_below(cond) THEN 0
    ELSE IF cond # "none" /\ incr = "add_1" THEN for_below(cond) - for_start(init)
    ELSE 4

for_ends_by_condition(init, cond, incr) ==
    cond # "none" /\ (for_start(init) >= for_below(cond) \/ incr = "add_1")

(* what  print i;  after the loop prints: the global i, which a loop       *)
(* variable declared in the initializer leaves alone                       *)
for_i_after(init, cond, incr) ==
    IF init = "var" THEN 0
    ELSE for_start(init) + for_turns(init, cond, incr) * for_step(incr)

for_output(init, cond, incr) ==
    [turn \in 1..for_turns(init, cond, incr) |->
        ToString(for_start(init) + (turn - 1) * for_step(incr))]
      \o (IF for_ends_by_condition(init, cond, incr)
          THEN <<ToString(for_i_after(init, cond, incr))>>
          ELSE <<>>)

(* the statement the parser made of the for statement of the program *)
for_parsed == statements[3]

for_while == IF prog.init = "none" THEN for_parsed ELSE for_parsed.statements[2]

for_body == IF prog.incr = "none" THEN for_while.body ELSE for_while.body.statements[1]

(* C25: a for statement is parsed into                                     *)
(* Block[init, While(cond, Block[body, Expression(incr)])], without the    *)
(* outer Block when there is no initializer, without the inner Block when  *)
(* there is no increment, and with the literal true for a missing          *)
(* condition; so a variable declared in the initializer is gone after the  *)
(* loop, the condition is tested before the first turn, and the increment  *)
(* runs after every completed turn of the body, before the next test.      *)
ForIsWhile ==
    (prog.name = "for" /\ pc \notin {"parse", "parse_error"}) =>
       /\ Len(statements) = 4
       /\ IF prog.init = "none" THEN for_parsed.t = "While"
          ELSE /\ for_parsed.t = "Block" /\ Len(for_parsed.statements) = 2
               /\ for_parsed.statements[1].t
                     = IF prog.init = "var" THEN "Var" ELSE "Expression"
       /\ for_while.t = "While"
       /\ IF prog.cond = "none"
          THEN for_while.condition = ExprLiteral(OBoolean(TRUE))
          ELSE /\ for_while.condition.t = "Binary"
               /\ for_while.condition.right
                     = ExprLiteral(ONumber(for_below(prog.cond)))
       /\ prog.incr # "none" =>
             /\ for_while.body.t = "Block" /\ Len(for_while.body.statements) = 2
             /\ for_while.body.statements[2].t = "Expression"
             /\ for_while.body.statements[2].expression.t = "Assign"
             /\ for_while.body.statements[2].expression.name = "i"
       /\ for_body.t = "Block" /\ Len(for_body.statements) = 3
       /\ for_body.statements[1].t = "Print"
       /\ errors = <<>>
       /\ pc = "done" =>
             /\ output = for_output(prog.init, prog.cond, prog.incr)
             /\ (runtime_errors = <<>>)
                   = for_ends_by_condition(prog.init, prog.cond, prog.incr)

(* for (var i = 1; i < 3; i = i + 1) { ... }  print i;  has run: two turns *)
(* of the body, then the global i                                          *)
ForIsWhileWitness ==
    /\ pc = "done" /\ prog.name = "for"
    /\ prog.init = "var" /\ prog.cond = "below_3" /\ prog.incr = "add_1"
    /\ output = <<"1", "2", "0">>
    /\ runtime_errors = <<>>

-----------------------------------------------------------------------------
(* Termination of the parser *)

(* the parser with its cursor on the token c *)
Parser_at(c) == [Parser_state EXCEPT !.current = c]

parse_begins == pc = "parse" /\ current = 1

cursor_in_range == tokens # <<>> => current \in 1..Len(tokens)

(* a turn of the loop of parse or of block calls declaration with the      *)
(* cursor on a token that is not Eof: wherever that is, declaration leaves *)
(* the cursor further on, not past Eof, and previous() has not been called *)
(* with the cursor on the first token                                      *)
declaration_consumes ==
    \A c \in 1..(Len(tokens) - 1) :
       LET d == Parser_declaration(Parser_at(c))
       IN d.P.current > c /\ d.P.current <= Len(tokens) /\ ~d.P.panicked

(* C26 as stated, its part about synchronize: after the error of the       *)
(* declaration that parse is about to read, synchronize leaves the cursor  *)
(* at least one token further on.                                          *)
SynchronizeAlwaysAdvances ==
    (pc = "parse" /\ ~Parser_is_at_end(Parser_state)) =>
       LET r == declaration_stmt_result(Parser_state)
       IN ~r.ok => Parser_synchronize(r.P).current > r.P.current

(* after an error synchronize moves the cursor on, except from Eof, where  *)
(* it leaves it                                                            *)
synchronize_advances_before_eof ==
    \A c \in 1..(Len(tokens) - 1) :
       LET r == declaration_stmt_result(Parser_at(c))
           after == Parser_synchronize(r.P)
       IN ~r.ok =>
             IF Parser_is_at_end(r.P) THEN after.current = r.P.current
             ELSE after.current > r.P.current

(* C26 amended: parse() terminates for every token sequence that ends with *)
(* one Eof token: every turn of the loop of parse and of the loop of block *)
(* moves the cursor on by at least one token (after an error synchronize   *)
(* advances at least one token unless the error is at Eof, and then the    *)
(* declaration has consumed the tokens before Eof), the cursor never moves *)
(* past Eof, and previous() is never called with the cursor on the first   *)
(* token.  The last conjunct is termination: in no behaviour does the loop *)
(* of parse take infinitely many turns.                                    *)
ParseTerminates ==
    /\ [](/\ cursor_in_range
          /\ ~parser_panicked
          /\ parse_begins => (declaration_consumes /\ synchronize_advances_before_eof))
    /\ [][(pc = "parse" /\ pc' = "parse") => current' > current]_vars
    /\ <>[][~(pc = "parse" /\ pc' = "parse")]_vars

(* {  )  Eof  has been parsed: the error at ")" was reported inside the    *)
(* block and synchronize went on to Eof; there the block reported its      *)
(* missing "}" and synchronize, called at Eof, left the cursor where it    *)
(* was; parse ended                                                        *)
ParseTerminatesWitness ==
    /\ pc = "parse_error" /\ prog.name = "cursor"
    /\ prog.k = <<"{", ")">>
    /\ current = Len(tokens)
    /\ Len(parse_errors) = 2
    /\ parse_errors[1].token.lexeme = ")"
    /\ parse_errors[2].token.type = "Eof"

-----------------------------------------------------------------------------
(* The current frame between runs *)

between_statements == Running /\ Top.f = "interpret" /\ ctl.m \in {"ok", "err"}

interpret_returned == pc = "done" /\ ctl = Stopped

(* the driver is between two runs, or in a run before interpret() *)
before_next_run == lox.mode # "test" /\ pc \in {"returned", "read", "parse", "exit"}

(* a runtime error is going out of the construct on top of the stack *)
error_leaves(f) == Running /\ ctl.m = "err" /\ ctl.e.kind = "RuntimeError" /\ Top.f = f

(* C27: whenever the interpreter is between two top-level statements, and  *)
(* after interpret() returns, for a runtime error raised at any depth of   *)
(* blocks, calls, while bodies or a class declaration with a superclass as *)
(* well, the current frame is the globals frame, so the next run (the next *)
(* line of the prompt) starts in the global scope.  A runtime error that   *)
(* goes out of a block, the body of a call included, makes current the     *)
(* frame the block was entered from.                                       *)
CurrentFrameIsGlobals ==
    /\ []((between_statements \/ interpret_returned \/ before_next_run)
            => environment = globals)
    /\ [][error_leaves("execute_block") => environment' = Top.previous]_vars

(* the prompt read  { { print b; } } , whose runtime error left two blocks, *)
(* and then  var a = 1; , which defined a in the globals frame             *)
CurrentFrameIsGlobalsWitness ==
    /\ lox.mode = "prompt" /\ prog.k = <<"block_rt", "var_ok">>
    /\ interpret_returned /\ lox.lines = <<>>
    /\ Len(runtime_errors) = 1
    /\ runtime_errors[1].message = "Undefined variable 'b'."
    /\ Len(frames) >= 3
    /\ "a" \in DOMAIN frames[globals].values
    /\ environment = globals

-----------------------------------------------------------------------------
(* Environment::assign *)

(* the frames of the chain of env, innermost first *)
RECURSIVE chain_of(_, _)
chain_of(F, env) == IF env = 0 THEN <<>> ELSE <<env>> \o chain_of(F, F[env].enclosing)

names_bound(F) == [e \in 1..Len(F) |-> DOMAIN F[e].values]

assign_call == pc = "assign" /\ pc' = "assigned"

(* C28: Environment.assign(name, value) never creates a binding.  When a   *)
(* frame of the chain binds name, it overwrites the binding of the nearest *)
(* such frame and leaves every other frame as it was; when no frame of the *)
(* chain binds name, it fails with a runtime error and every frame is as   *)
(* it was before the call.                                                 *)
AssignNeverCreatesStep ==
    assign_call =>
       LET nearest == nearest_binding(frames, environment, prog.target)
       IN /\ names_bound(frames') = names_bound(frames)
          /\ IF nearest # 0
             THEN /\ ctl' = Unit
                  /\ frames'[nearest].values[prog.target] = assigned_value
                  /\ \A x \in DOMAIN frames[nearest].values :
                        x # prog.target =>
                           frames'[nearest].values[x] = frames[nearest].values[x]
                  /\ \A e \in 1..Len(frames) : e # nearest => frames'[e] = frames[e]
             ELSE /\ ctl'.m = "err" /\ ctl'.e.kind = "RuntimeError"
                  /\ frames' = frames

AssignNeverCreates == [][AssignNeverCreatesStep]_vars

(* assign of a, which the innermost frame does not bind, the middle frame  *)
(* and the globals do: the middle frame has the new value, the globals the *)
(* old one                                                                 *)
AssignNeverCreatesWitness ==
    /\ pc = "assigned" /\ prog.target = "a"
    /\ prog.bound = <<{"a"}, {"a", "b"}, {"b"}>>
    /\ chain_of(frames, environment) = <<3, 2, 1>>
    /\ frames[2].values["a"] = assigned_value
    /\ frames[1].values["a"] = ONumber(1)
    /\ ctl = Unit

(* assign of a name that no frame of a chain of three binds has failed *)
AssignFailsWitness ==
    /\ pc = "assigned" /\ Len(frames) = 3
    /\ nearest_binding(frames, environment, prog.target) = 0
    /\ ctl.m = "err" /\ ctl.e.message = "Undefined variable " \o prog.target \o "."

-----------------------------------------------------------------------------
(* The resolver walks the whole program *)

inherits_from_itself == "A class can't inherit from itself."

(* what the statement of a kind of the violations family breaks, in the    *)
(* order of the walk                                                       *)
violation_reports(kind) ==
    CASE kind = "none" -> <<>>
      [] kind = "return_top" -> << top_level_code >>
      [] kind = "this_top" -> << this_outside_of_class >>
      [] kind = "super_top" -> << super_outside_of_class >>
      [] kind = "redeclare" -> << already_declared >>
      [] kind = "own_initializer" -> << own_initializer >>
      [] kind = "self_inherit" -> << inherits_from_itself >>
      [] kind = "init_value" -> << from_initializer >>
      [] kind = "no_superclass" -> << super_without_superclass >>
      [] kind = "two_in_function" -> << already_declared, this_outside_of_class >>
      [] kind = "three_in_class" ->
            << from_initializer, already_declared, super_without_superclass >>

RECURSIVE violations_reports(_, _)
violations_reports(k, p) ==
    IF p > Len(k) THEN <<>>
    ELSE violation_reports(k[p]) \o violations_reports(k, p + 1)

resolve_returns == pc = "start" /\ pc' # "start"

(* C29: resolve() walks the whole statement list, also after it reported   *)
(* an error: every violation of the program is reported, a report does not *)
(* suppress a later one; when resolve() returns the scope stack is empty   *)
(* and FunctionType and ClassType are None again; end_scope never finds    *)
(* the scope stack empty.                                                  *)
ResolverWalksWholeListStep ==
    resolve_returns =>
       LET R == Resolver_resolve(statements)
       IN /\ R.scopes = <<>>
          /\ R.current_function = "None"
          /\ R.current_class = "None"
          /\ ~R.panicked
          /\ errors' = R.errors
          /\ pc' # "panic"
          /\ prog.name = "violations" => errors' = violations_reports(prog.k, 1)

ResolverWalksWholeList == [][ResolverWalksWholeListStep]_vars

(* class D, which breaks three rules in two methods, and then  print this; *)
(* have been resolved: four reports                                        *)
ResolverWalksWholeListWitness ==
    /\ pc = "static_error" /\ prog.name = "violations"
    /\ prog.k = <<"three_in_class", "this_top">>
    /\ errors = << from_initializer, already_declared, super_without_superclass,
                   this_outside_of_class >>

-----------------------------------------------------------------------------
(* Unique identifiers *)

(* the calls that have returned: <<thread, position among its calls>> *)
returned_calls ==
    { c \in (1..Threads) \X (1..Calls) : c[2] <= Len(threads.returned[c[1]]) }

call(c) == threads.returned[c[1]][c[2]]

(* C30: no two calls of unique_usize() return the same value and no two    *)
(* calls of unique_u128() return the same value, however the calls of the  *)
(* threads interleave, and the values returned to one thread increase      *)
(* strictly; so the identifiers drawn for distinct nodes and objects       *)
(* differ.                                                                 *)
IdsAreUnique ==
    \A c, d \in returned_calls :
       (c # d /\ call(c).f = call(d).f) =>
          /\ call(c).id # call(d).id
          /\ (c[1] = d[1] /\ c[2] < d[2]) => call(c).id < call(d).id

(* both threads have made two calls of unique_u128, taking turns *)
IdsAreUniqueWitness ==
    /\ pc = "unique_id"
    /\ \A t \in 1..Threads : Len(threads.returned[t]) = Calls
    /\ threads.returned[1] = << [f |-> "unique_u128", id |-> 1],
                                [f |-> "unique_u128", id |-> 3] >>
    /\ threads.returned[2][1] = [f |-> "unique_u128", id |-> 2]
    /\ threads.returned[2][2] = [f |-> "unique_usize", id |-> 0]

=============================================================================
